---- MODULE Spec2Model ----
(***************************************************************************)
(* Planet Fatness backend: activity ingestion, the reward calculator, the  *)
(* daily cap and the lifetime rollups, modelled from src/src/index.ts (the *)
(* request handlers) and src/unnamed/part_004 (the db module it imports).  *)
(*                                                                         *)
(* Every `await pool.query(...)` of a handler is one atomic step of the    *)
(* store (autocommit, no transaction is opened anywhere in the source), so *)
(* concurrent requests interleave between their statements.                *)
(*                                                                         *)
(* Units: calories, scores, seconds and milliseconds are integers.  Miles  *)
(* (DOUBLE PRECISION in the source) are counted in tenths of a mile.  The  *)
(* rationals computeEarnedCalories works with (score * 2.2, durationMs /   *)
(* 60000 * 220, ...) are carried exactly as integer multiples of 1/Scale   *)
(* calorie.                                                                *)
(***************************************************************************)
EXTENDS Integers, Sequences, FiniteSets, TLC

VARIABLES
    users,      \* table users: address -> row (or NoRow)
    sessions,   \* table sessions: the receipts, in id order
    day,        \* date_trunc('day', NOW()) of the store's clock, as a day number
    req,        \* the requests of the run: request -> handler state
    challenges  \* auth.ts `challenges`: the Map of each server process

vars == <<users, sessions, day, req, challenges>>

-----------------------------------------------------------------------------
(* Bounds of the model *)

\* number of requests in one run (all of them may be in flight together)
MaxReq == 2
\* number of day boundaries the clock may cross
MaxDay == 2
\* full-value runs a1 has already submitted, one after another, before the run
PriorRuns == 6

ReqIds == 1..MaxReq
Addr == {"a1", "a2", "tg:7"}

-----------------------------------------------------------------------------
(* Small helpers *)

Max(a, b) == IF a >= b THEN a ELSE b
Min(a, b) == IF a <= b THEN a ELSE b

\* index.ts: function clamp(n, a, b) { return Math.max(a, Math.min(b, n)); }
clamp(n, a, b) == Max(a, Min(b, n))

\* req.body?.k ?? dflt : a body is a record that holds only the fields the
\* client sent
Field(body, k, dflt) == IF k \in DOMAIN body THEN body[k] ELSE dflt

Has(body, k) == k \in DOMAIN body

-----------------------------------------------------------------------------
(* Rules table *)

GameKeys == {"runner", "snack", "lift", "basket", "greed"}

\* String(x || "").toLowerCase().trim(), on the game names the runs send
toLowerCaseTrim(x) ==
    CASE x = "GREED" -> "greed"
      [] x = "Runner " -> "runner"
      [] OTHER -> x

\* a slip: a name that is no game key falls back to lift
asGameKeyDefaultLift(x) ==
    IF toLowerCaseTrim(x) \in GameKeys THEN toLowerCaseTrim(x) ELSE "lift"

asGameKey(x) ==
    IF toLowerCaseTrim(x) \in GameKeys THEN toLowerCaseTrim(x) ELSE "snack"

COMMON_RULES ==
    [minDurationMs |-> 10000, maxRunCalories |-> 180,
     dailyCapCalories |-> 1200, cpmCap |-> 220]

RuleGames == {"runner", "snack", "lift", "basket"}

RULES == [g \in RuleGames |->
            [minDurationMs |-> COMMON_RULES.minDurationMs,
             maxRunCalories |-> COMMON_RULES.maxRunCalories,
             dailyCapCalories |-> COMMON_RULES.dailyCapCalories,
             cpmCap |-> COMMON_RULES.cpmCap,
             maxScorePerRun |-> 0]]

SCORE_PER_MIN_CAP == [runner |-> 999999, snack |-> 520, lift |-> 450, basket |-> 360]

\* const rules = RULES[game] || COMMON_RULES   (the handler, not the calculator)
RulesOrCommon(game) == IF game \in DOMAIN RULES THEN RULES[game] ELSE COMMON_RULES

-----------------------------------------------------------------------------
(* Reward calculator: computeEarnedCalories *)

MsPerMinute == 60000

\* one calorie = Scale units; tenths of a calorie per minute are exact in it
Scale == MsPerMinute * 10

\* a slip: a runner submission without distance has no base amount
BaseScaledMilesOnly(game, score, miles, durationMs) ==
    CASE game = "snack"  -> score * 22 * MsPerMinute
      [] game = "basket" -> score * 18 * MsPerMinute
      [] game = "lift"   -> score * 20 * MsPerMinute
      [] game = "runner" -> miles * 11 * Scale
      [] OTHER -> 0

\* base, in 1/Scale calories
\*   snack score * 2.2, basket score * 1.8, lift score * 2.0,
\*   runner miles * 110, or durationMin * 120 when no miles are reported
BaseScaled(game, score, miles, durationMs) ==
    CASE game = "snack"  -> score * 22 * MsPerMinute
      [] game = "basket" -> score * 18 * MsPerMinute
      [] game = "lift"   -> score * 20 * MsPerMinute
      [] game = "runner" -> IF miles <= 0
                            THEN durationMs * 120 * 10
                            ELSE miles * 11 * Scale
      [] OTHER -> 0

\* const timeCap = durationMin * rules.cpmCap, in 1/Scale calories
TimeCapScaled(rules, durationMs) == durationMs * rules.cpmCap * 10

\* a slip: the per-run ceiling is left out of the clamp
RunCeilingTimeOnly(rules, durationMs) == TimeCapScaled(rules, durationMs)

\* Math.min(timeCap, rules.maxRunCalories), in 1/Scale calories
RunCeilingScaled(rules, durationMs) ==
    Min(TimeCapScaled(rules, durationMs), rules.maxRunCalories * Scale)

\* a slip: the total score, not the score per minute, is held against the ceiling
ScoreTotalTooHigh(game, score, durationMs) == score > SCORE_PER_MIN_CAP[game]

\* scorePerMin > SCORE_PER_MIN_CAP[game], with
\* scorePerMin = durationMin > 0 ? score / durationMin : score
ScoreRateTooHigh(game, score, durationMs) ==
    IF durationMs > 0
    THEN score * MsPerMinute > SCORE_PER_MIN_CAP[game] * durationMs
    ELSE score > SCORE_PER_MIN_CAP[game]

\* a slip: only an empty duration counts as too short
TooShortOnlyZero(rules, durationMs) == durationMs <= 0

\* durationMs < rules.minDurationMs
TooShort(rules, durationMs) == durationMs < rules.minDurationMs

\* Math.floor(clamp(base, 0, Math.min(timeCap, rules.maxRunCalories)))
earnedCalories(rules, game, score, miles, durationMs) ==
    clamp(BaseScaled(game, score, miles, durationMs), 0,
          RunCeilingScaled(rules, durationMs)) \div Scale

\* a slip: the score is paid out as it comes, without a look at any rules
computeEarnedCaloriesUnruled(game, rawScore, rawMiles, rawDurationMs) ==
    [earnedCalories |-> Max(0, rawScore), reason |-> "ok"]

computeEarnedCalories(game, rawScore, rawMiles, rawDurationMs) ==
    IF game = "greed"
    THEN [earnedCalories |-> 0, reason |-> "ok"]
    ELSE
      LET rules == RULES[game]
          durationMs == Max(0, rawDurationMs)
          score == Max(0, rawScore)
          miles == Max(0, rawMiles)
      IN  IF TooShort(rules, durationMs)
          THEN [earnedCalories |-> 0, reason |-> "too_short"]
          ELSE IF game # "runner" /\ ScoreRateTooHigh(game, score, durationMs)
          THEN [earnedCalories |-> 0, reason |-> "score_too_high"]
          ELSE [earnedCalories |-> earnedCalories(rules, game, score, miles, durationMs),
                reason |-> "ok"]

-----------------------------------------------------------------------------
(* The store *)

\* no row; display_name is a sequence of characters, <<>> for NULL
NoRow == [exists |-> FALSE, total_calories |-> 0, total_miles |-> 0, best_seconds |-> 0,
          display_name |-> <<>>]

\* a slip: on a conflict the statement puts the row back to its defaults
upsertUserReplace(u, a) == [u EXCEPT ![a] = [NoRow EXCEPT !.exists = TRUE]]

\* INSERT INTO users (address) VALUES ($1) ON CONFLICT (address) DO UPDATE SET updated_at = NOW()
\* address is the primary key: the table is a function of the address
upsertUser(u, a) ==
    IF u[a].exists THEN u
    ELSE [u EXCEPT ![a] = [NoRow EXCEPT !.exists = TRUE]]

\* a slip: the statement stores the delta instead of adding it
OverwriteTotal(old, delta) == delta

\* total_calories = total_calories + $2
AddedTotal(old, delta) == old + delta

\* a slip: the newest candidate replaces the personal best
Latest(old, candidate) == candidate

\* best_seconds = GREATEST(best_seconds, $4)
Greatest(old, candidate) == Max(old, candidate)

\* UPDATE users SET total_calories = total_calories + $2, total_miles = total_miles + $3,
\*   best_seconds = GREATEST(best_seconds, $4) WHERE address = $1
\* one statement: the store reads and writes the row atomically
updateRollup(u, a, addCalories, addMiles, bestSeconds) ==
    IF ~u[a].exists THEN u
    ELSE [u EXCEPT ![a] =
            [u[a] EXCEPT
               !.total_calories = AddedTotal(u[a].total_calories, addCalories),
               !.total_miles = AddedTotal(u[a].total_miles, addMiles),
               !.best_seconds = Greatest(u[a].best_seconds, bestSeconds)]]

\* a slip: the deltas are taken as the caller gave them
addActivityArgsRaw(p) ==
    [addCalories |-> p.addCalories, addMiles |-> p.addMiles,
     bestSeconds |-> p.bestSeconds]

\* the values addActivity binds to $2..$4 from its params
addActivityArgs(p) ==
    [addCalories |-> Max(0, p.addCalories),
     addMiles |-> Max(0, p.addMiles),
     bestSeconds |-> Max(0, p.bestSeconds)]

\* the row logSession inserts; created_at defaults to NOW().  via and prov are
\* history columns the program does not store and no action reads: the
\* endpoint that wrote the receipt and the amount the calculator had granted.
sessionRow(p, now, via, prov) ==
    [address |-> p.address,
     game |-> IF p.game = "" THEN "unknown" ELSE p.game,
     calories |-> Max(0, p.calories),
     miles |-> Max(0, p.miles),
     best_seconds |-> Max(0, p.bestSeconds),
     score |-> Max(0, p.score),
     duration_ms |-> Max(0, p.durationMs),
     streak |-> Max(0, p.streak),
     created_at |-> now,
     via |-> via,
     prov |-> prov]

\* a slip: the statement overwrites the newest receipt instead of adding one
overwriteSession(s, row) ==
    IF s = <<>> THEN <<row>> ELSE [s EXCEPT ![Len(s)] = row]

\* INSERT INTO sessions (...) VALUES (...)
insertSession(s, row) == Append(s, row)

\* the receipts of (address, game) created on day d, in ledger order
RECURSIVE PairDay(_, _, _, _)
PairDay(s, a, g, d) ==
    IF s = <<>> THEN <<>>
    ELSE LET rest == PairDay(Tail(s), a, g, d)
         IN  IF Head(s).address = a /\ Head(s).game = g /\ Head(s).created_at = d
             THEN <<Head(s)>> \o rest ELSE rest

RECURSIVE SumCalories(_)
SumCalories(s) == IF s = <<>> THEN 0 ELSE Head(s).calories + SumCalories(Tail(s))

\* a slip: the sum runs over the receipts of every day
getTodayAggEver(s, a, g, now) ==
    SumCalories(SelectSeq(s, LAMBDA x : x.address = a /\ x.game = g))

\* a slip: the sum runs over the day's receipts of every game of the address
getTodayAggAnyGame(s, a, g, now) ==
    SumCalories(SelectSeq(s, LAMBDA x : x.address = a /\ x.created_at = now))

\* getTodayAgg(address, game).calories:
\* SUM(CASE WHEN created_at >= date_trunc('day', NOW()) THEN calories ELSE 0 END)
\*   FROM sessions WHERE address=$1 AND game=$2
getTodayAgg(s, a, g, now) == SumCalories(PairDay(s, a, g, now))

\* a slip: the headroom forgets what the day has already credited
RemainingIgnoresToday(rules, todayCalories) == rules.dailyCapCalories

\* const remaining = Math.max(0, rules.dailyCapCalories - todayBefore.calories)
Remaining(rules, todayCalories) == Max(0, rules.dailyCapCalories - todayCalories)

\* const earnedCapped = Math.max(0, Math.min(calc.earnedCalories, remaining))
EarnedCapped(earned, remaining) == Max(0, Min(earned, remaining))

-----------------------------------------------------------------------------
(* Requests *)

\* the server processes, each with a `challenges` Map of its own
Instances == {"i1", "i2"}

\* challenges.get(address) === undefined
NoChallenge == [held |-> FALSE, nonce |-> "", exp |-> 0, issue |-> 0]

\* new Map(): the memory of a process that has just started
NoChallenges == [i \in Instances |-> [a \in Addr |-> NoChallenge]]

NoBody == [k \in {} |-> 0]

Idle ==
    [pc |-> "idle", kind |-> "none", address |-> "a1", body |-> NoBody,
     earned |-> 0, reason |-> "none", capped |-> 0, status |-> 0,
     wroteReceipt |-> FALSE, wroteRollup |-> FALSE, overlapped |-> FALSE,
     failedAt |-> "none", me |-> NoRow, rows |-> <<>>, answer |-> NoBody,
     limit |-> 0, instance |-> "i1", name |-> <<>>, challenge |-> NoChallenge]

\* requests are numbered in the order they arrive
MayStart(r) ==
    /\ req[r].pc = "idle"
    /\ IF r = 1 THEN TRUE ELSE req[r - 1].pc # "idle"

\* POST /activity/submit: the handler's locals
SubmitGame(b) == asGameKey(Field(b, "game", ""))
SubmitScore(b) == Field(b, "score", 0)
SubmitMiles(b) == Field(b, "miles", 0)
SubmitBestSeconds(b) == Field(b, "bestSeconds", 0)
SubmitDurationMs(b) == Field(b, "durationMs", 0)
\* Number.isFinite(durationMs): a field the client sent as something Number()
\* turns into NaN is named in the body's "nan" set
DurationIsFinite(b) == "durationMs" \notin Field(b, "nan", {})
SubmitStreak(b) == Max(0, Field(b, "streak", 0))

\* POST /activity/add: the handler's locals (v2 names win over the legacy ones)
AddGame(b) == Field(b, "game", "")
FinalAddCalories(b) == IF Has(b, "calories") THEN b.calories ELSE Field(b, "addCalories", 0)
FinalAddMiles(b) == IF Has(b, "miles") THEN b.miles ELSE Field(b, "addMiles", 0)
FinalBestSeconds(b) == Field(b, "bestSeconds", 0)
FinalScore(b) == Field(b, "score", 0)
FinalDurationMs(b) == Max(0, Field(b, "durationMs", 0))
FinalStreak(b) == Max(0, Field(b, "streak", 0))

\* a slip: only a game name makes a payload a receipt
looksLikeReceiptGameOnly(b) == AddGame(b) # ""

looksLikeReceipt(b) ==
    AddGame(b) # "" \/ FinalScore(b) > 0 \/ FinalDurationMs(b) > 0

\* what the handler of request q passes to logSession
LogParams(q) ==
    IF q.kind = "submit"
    THEN [address |-> q.address, game |-> SubmitGame(q.body),
          calories |-> q.capped,
          miles |-> Max(0, SubmitMiles(q.body)),
          bestSeconds |-> Max(0, SubmitBestSeconds(q.body)),
          score |-> Max(0, SubmitScore(q.body)),
          streak |-> SubmitStreak(q.body),
          durationMs |-> Max(0, SubmitDurationMs(q.body))]
    ELSE [address |-> q.address,
          game |-> IF AddGame(q.body) = "" THEN "unknown" ELSE AddGame(q.body),
          calories |-> Max(0, FinalAddCalories(q.body)),
          miles |-> Max(0, FinalAddMiles(q.body)),
          bestSeconds |-> Max(0, FinalBestSeconds(q.body)),
          score |-> Max(0, FinalScore(q.body)),
          streak |-> FinalStreak(q.body),
          durationMs |-> Max(0, FinalDurationMs(q.body))]

\* what the handler of request q passes to addActivity
ActivityParams(q) ==
    IF q.kind = "submit"
    THEN [addCalories |-> q.capped,
          bestSeconds |-> Max(0, SubmitBestSeconds(q.body)),
          addMiles |-> Max(0, SubmitMiles(q.body))]
    ELSE [addCalories |-> FinalAddCalories(q.body),
          bestSeconds |-> FinalBestSeconds(q.body),
          addMiles |-> FinalAddMiles(q.body)]

-----------------------------------------------------------------------------
(* The requests the clients send in the modelled runs *)

FullRun == [game |-> "snack", score |-> 100, durationMs |-> 60000, bestSeconds |-> 20]

\* a1 plays; a2 is a second user whose requests must not matter to a1
SubmitRequests ==
    { [address |-> "a1", body |-> FullRun],
      [address |-> "a1",
       body |-> [game |-> "snack", score |-> 40, durationMs |-> 5000, bestSeconds |-> 9]],
      [address |-> "a1", body |-> [game |-> "snack", score |-> 600, durationMs |-> 60000]],
      [address |-> "a1",
       body |-> [game |-> "runner", miles |-> 20, durationMs |-> 60000, bestSeconds |-> 60]],
      [address |-> "a1", body |-> [game |-> "snack", score |-> 10]],
      [address |-> "a1", body |-> [game |-> "snack", score |-> 10, durationMs |-> 0]],
      [address |-> "a1", body |-> [game |-> "snack", score |-> 10, durationMs |-> -1000]],
      [address |-> "a1", body |-> [game |-> "snack", score |-> 10, nan |-> {"durationMs"}]],
      [address |-> "a2", body |-> FullRun] }

AddRequests ==
    { [address |-> "a1", body |-> [addCalories |-> 7000]],
      [address |-> "a1",
       body |-> [game |-> "snack", calories |-> 1300, score |-> 10, durationMs |-> 1000]],
      [address |-> "a2", body |-> [addMiles |-> 5, bestSeconds |-> 30]] }

-----------------------------------------------------------------------------
(* Initial state: a fresh store, or the store as a1 left it after PriorRuns  *)
(* submissions of FullRun made one after another earlier on day 0.          *)

RECURSIVE PriorLedger(_)
PriorLedger(k) ==
    IF k = 0 THEN <<>>
    ELSE LET before == PriorLedger(k - 1)
             calc == computeEarnedCalories("snack", FullRun.score, 0, FullRun.durationMs)
             capped == EarnedCapped(calc.earnedCalories,
                          Remaining(RulesOrCommon("snack"),
                                    getTodayAgg(before, "a1", "snack", 0)))
         IN  Append(before,
                    sessionRow([address |-> "a1", game |-> "snack", calories |-> capped,
                                miles |-> 0, bestSeconds |-> FullRun.bestSeconds,
                                score |-> FullRun.score,
                                streak |-> 0, durationMs |-> FullRun.durationMs],
                               0, "submit", calc.earnedCalories))

PriorUsers(ledger) ==
    [a \in Addr |->
        IF a = "a1" /\ ledger # <<>>
        THEN [NoRow EXCEPT !.exists = TRUE, !.total_calories = SumCalories(ledger),
                           !.best_seconds = FullRun.bestSeconds]
        ELSE NoRow]

Init ==
    /\ \E k \in {0, PriorRuns} :
          /\ sessions = PriorLedger(k)
          /\ users = PriorUsers(PriorLedger(k))
    /\ day = 0
    /\ req = [r \in ReqIds |-> Idle]
    /\ challenges = NoChallenges

-----------------------------------------------------------------------------
(* POST /activity/submit *)

\* a slip: a submission cut by the daily cap is answered with a reason of its own
SubmitResponseCapReason(q) ==
    [ok |-> TRUE, earnedCalories |-> q.capped,
     reason |-> IF q.capped < q.earned THEN "daily_cap" ELSE q.reason]

\* res.json({ ok: true, ..., earnedCalories: earnedCapped, reason: calc.reason, ... })
SubmitResponse(q) ==
    [ok |-> TRUE, earnedCalories |-> q.capped, reason |-> q.reason]

\* res.json({ address, totalCalories, bestSeconds, totalMiles }) from the row
\* addActivity returned
AddResponse(q) ==
    [totalCalories |-> q.me.total_calories, bestSeconds |-> q.me.best_seconds,
     totalMiles |-> q.me.total_miles]

\* the body of the answer with the given status
Answer(q, status) ==
    IF status = 200 /\ q.kind = "submit" THEN SubmitResponse(q)
    ELSE IF status = 200 /\ q.kind = "add" THEN AddResponse(q)
    ELSE NoBody

Finish(q, status) ==
    [q EXCEPT !.pc = "done", !.status = status, !.answer = Answer(q, status)]

\* a slip: only a zero duration counts as missing
MissingDurationOnlyZero(b) == SubmitDurationMs(b) = 0

\* !Number.isFinite(durationMs) || durationMs <= 0
MissingDuration(b) ==
    IF ~DurationIsFinite(b) THEN TRUE ELSE SubmitDurationMs(b) <= 0

\* up to the first await: parse, validate, computeEarnedCalories
SubmitStart(r, a, b) ==
    /\ MayStart(r)
    /\ LET q == [Idle EXCEPT !.kind = "submit", !.address = a, !.body = b]
           calc == computeEarnedCalories(SubmitGame(b), SubmitScore(b),
                                         SubmitMiles(b), SubmitDurationMs(b))
       IN  req' = [req EXCEPT ![r] =
                     IF MissingDuration(b)
                     THEN Finish(q, 400)
                     ELSE [q EXCEPT !.pc = "today_before",
                                    !.earned = calc.earnedCalories,
                                    !.reason = calc.reason]]
    /\ UNCHANGED <<challenges, users, sessions, day>>

\* const todayBefore = await getTodayAgg(address, game); then the cap
SubmitTodayBefore(r) ==
    /\ req[r].pc = "today_before"
    /\ LET q == req[r]
           game == SubmitGame(q.body)
           todayBefore == getTodayAgg(sessions, q.address, game, day)
           remaining == Remaining(RulesOrCommon(game), todayBefore)
       IN  req' = [req EXCEPT ![r] =
                     [q EXCEPT !.pc = "log_upsert",
                               !.capped = EarnedCapped(q.earned, remaining)]]
    /\ UNCHANGED <<challenges, users, sessions, day>>

\* const todayAfter = await getTodayAgg(address, game); res.json({ ok: true, ... })
SubmitTodayAfter(r) ==
    /\ req[r].pc = "today_after"
    /\ req' = [req EXCEPT ![r] = Finish(req[r], 200)]
    /\ UNCHANGED <<challenges, users, sessions, day>>

-----------------------------------------------------------------------------
(* POST /activity/add (legacy) *)

AddStart(r, a, b) ==
    /\ MayStart(r)
    /\ req' = [req EXCEPT ![r] =
                 [Idle EXCEPT !.kind = "add", !.address = a, !.body = b,
                              !.pc = "add_upsert"]]
    /\ UNCHANGED <<challenges, users, sessions, day>>

-----------------------------------------------------------------------------
(* db module: logSession and addActivity, two statements each *)

\* logSession: await upsertUser(address)
LogSessionUpsert(r) ==
    /\ req[r].pc = "log_upsert"
    /\ users' = upsertUser(users, req[r].address)
    /\ req' = [req EXCEPT ![r].pc = "log_insert"]
    /\ UNCHANGED <<challenges, sessions, day>>

\* a slip: a submission that is credited nothing leaves no receipt
LogSessionInsertUnlessZero(r) ==
    /\ req[r].pc = "log_insert"
    /\ users[req[r].address].exists
    /\ LET q == req[r]
       IN  /\ sessions' = IF q.kind = "submit" /\ q.capped = 0 THEN sessions
                          ELSE insertSession(sessions,
                                   sessionRow(LogParams(q), day, q.kind, q.earned))
           /\ req' = [req EXCEPT ![r] =
                        IF q.kind = "submit"
                        THEN [q EXCEPT !.pc = "add_upsert", !.wroteReceipt = TRUE]
                        ELSE Finish([q EXCEPT !.wroteReceipt = TRUE], 200)]
    /\ UNCHANGED <<challenges, users, day>>

\* logSession: INSERT INTO sessions ...; the handler goes on
LogSessionInsert(r) ==
    /\ req[r].pc = "log_insert"
    /\ users[req[r].address].exists
    /\ LET q == req[r]
       IN  /\ sessions' = insertSession(sessions,
                                 sessionRow(LogParams(q), day, q.kind, q.earned))
           /\ req' = [req EXCEPT ![r] =
                        IF q.kind = "submit"
                        THEN [q EXCEPT !.pc = "add_upsert", !.wroteReceipt = TRUE]
                        ELSE Finish([q EXCEPT !.wroteReceipt = TRUE], 200)]
    /\ UNCHANGED <<challenges, users, day>>

\* addActivity: await upsertUser(address)
AddActivityUpsert(r) ==
    /\ req[r].pc = "add_upsert"
    /\ users' = upsertUser(users, req[r].address)
    /\ req' = [req EXCEPT ![r].pc = "add_update"]
    /\ UNCHANGED <<challenges, sessions, day>>

\* addActivity: UPDATE users ... RETURNING *; the handler goes on
AddActivityUpdate(r) ==
    /\ req[r].pc = "add_update"
    /\ LET q == req[r]
           args == addActivityArgs(ActivityParams(q))
           me == users[q.address].exists
           \* history: another addActivity call for the address is in flight
           other == \E o \in ReqIds \ {r} :
                        /\ req[o].address = q.address
                        /\ req[o].pc \in {"add_upsert", "add_update"}
           after == updateRollup(users, q.address, args.addCalories,
                                 args.addMiles, args.bestSeconds)
           \* const me = r.rows[0], the row RETURNING * gives back
           w == [q EXCEPT !.wroteRollup = TRUE, !.overlapped = other,
                          !.me = after[q.address]]
       IN  /\ users' = after
           /\ req' = [req EXCEPT ![r] =
                        IF ~me THEN Finish(q, 500)
                        ELSE IF q.kind = "submit"
                        THEN [w EXCEPT !.pc = "today_after"]
                        ELSE IF looksLikeReceipt(q.body)
                        THEN [w EXCEPT !.pc = "log_upsert"]
                        ELSE Finish(w, 200)]
    /\ UNCHANGED <<challenges, sessions, day>>

\* a slip: the failure of the legacy receipt logging reaches the client
FailureStatusStrict(q) ==
    IF q.kind \in {"submit", "reset", "v2", "games"} THEN 500
    ELSE IF q.kind = "add" /\ q.pc \in {"log_upsert", "log_insert"} THEN 500
    ELSE 0

\* what the client is answered when the statement request q waits for is
\* rejected.  /activity/submit, /admin/launch-reset, /leaderboard/v2 and
\* /leaderboard/games catch everything and answer 500.  /activity/add
\* swallows a failure of logSession and answers with the totals it has;
\* nothing catches a failure of its addActivity, nor of the query of
\* /leaderboard, and the handler sends no answer (status 0).
FailureStatus(q) ==
    IF q.kind \in {"submit", "reset", "v2", "games"} THEN 500
    ELSE IF q.kind = "add" /\ q.pc \in {"log_upsert", "log_insert"} THEN 200
    ELSE 0

\* a statement of the store fails and the call throws
StatementFails(r) ==
    /\ req[r].pc \in {"today_before", "log_upsert", "log_insert",
                      "add_upsert", "add_update", "today_after",
                      "reset_users", "reset_sessions", "reset_bot",
                      "board_query"}
    /\ LET q == req[r]
       IN  req' = [req EXCEPT ![r] =
                     Finish([q EXCEPT !.failedAt = q.pc], FailureStatus(q))]
    /\ UNCHANGED <<challenges, users, sessions, day>>

\* the store's clock crosses midnight
Tick ==
    /\ day < MaxDay
    /\ day' = day + 1
    /\ UNCHANGED <<challenges, users, sessions, req>>

-----------------------------------------------------------------------------

Next ==
    \/ \E r \in ReqIds, c \in SubmitRequests : SubmitStart(r, c.address, c.body)
    \/ \E r \in ReqIds : SubmitTodayBefore(r)
    \/ \E r \in ReqIds : SubmitTodayAfter(r)
    \/ \E r \in ReqIds, c \in AddRequests : AddStart(r, c.address, c.body)
    \/ \E r \in ReqIds : LogSessionUpsert(r)
    \/ \E r \in ReqIds : LogSessionInsert(r)
    \/ \E r \in ReqIds : AddActivityUpsert(r)
    \/ \E r \in ReqIds : AddActivityUpdate(r)
    \/ \E r \in ReqIds : StatementFails(r)
    \/ Tick

Spec == Init /\ [][Next]_vars

-----------------------------------------------------------------------------
(* The same handlers with the requests arriving one after another: a request *)
(* starts, and midnight passes, only while no other request is in flight.    *)

Quiet == \A r \in ReqIds : req[r].pc \in {"idle", "done"}

NextSeq ==
    \/ \E r \in ReqIds, c \in SubmitRequests :
           Quiet /\ SubmitStart(r, c.address, c.body)
    \/ \E r \in ReqIds : SubmitTodayBefore(r)
    \/ \E r \in ReqIds : SubmitTodayAfter(r)
    \/ \E r \in ReqIds, c \in AddRequests :
           Quiet /\ AddStart(r, c.address, c.body)
    \/ \E r \in ReqIds : LogSessionUpsert(r)
    \/ \E r \in ReqIds : LogSessionInsert(r)
    \/ \E r \in ReqIds : AddActivityUpsert(r)
    \/ \E r \in ReqIds : AddActivityUpdate(r)
    \/ \E r \in ReqIds : StatementFails(r)
    \/ Quiet /\ Tick

SpecSeq == Init /\ [][NextSeq]_vars

-----------------------------------------------------------------------------
(* The reward calculator over its input domain: computeEarnedCalories is     *)
(* evaluated on every combination of the values below (CalcEval), and one    *)
(* /activity/submit carrying any of them runs to its end.                    *)

CalcScores == {-5, 0, 1, 50, 81, 82, 95, 100, 520, 521, 600, 1500}
CalcMiles == {-3, 0, 1, 16, 17, 20, 300}
CalcDurations == {-1000, 0, 1, 9999, 10000, 15000, 49090, 49091, 60000, 600000}

CalcBodies ==
    { [game |-> g, score |-> sc, miles |-> mi, durationMs |-> du] :
        g \in GameKeys, sc \in CalcScores, mi \in CalcMiles, du \in CalcDurations }

CalcEval(b) ==
    /\ req[1].pc = "idle"
    /\ LET calc == computeEarnedCalories(b.game, b.score, b.miles, b.durationMs)
       IN  req' = [req EXCEPT ![1] =
                     [Idle EXCEPT !.kind = "calc", !.body = b, !.pc = "done",
                                  !.earned = calc.earnedCalories,
                                  !.reason = calc.reason]]
    /\ UNCHANGED <<challenges, users, sessions, day>>

NextCalc ==
    \/ req[1].pc = "idle" /\ \E b \in CalcBodies : CalcEval(b)
    \/ req[1].pc = "idle" /\ \E b \in CalcBodies : SubmitStart(1, "a1", b)
    \/ SubmitTodayBefore(1)
    \/ LogSessionUpsert(1)
    \/ LogSessionInsert(1)
    \/ AddActivityUpsert(1)
    \/ AddActivityUpdate(1)
    \/ SubmitTodayAfter(1)

SpecCalc == Init /\ [][NextCalc]_vars

-----------------------------------------------------------------------------
(* The rollup aggregator under concurrent callers: /activity/add requests of *)
(* the legacy shape (no receipt), each one call of addActivity.              *)

RollupRequests ==
    { [address |-> "a1", body |-> [addCalories |-> 7000]],
      [address |-> "a1", body |-> [addCalories |-> 50, addMiles |-> 5, bestSeconds |-> 30]],
      [address |-> "a1", body |-> [addCalories |-> -4, addMiles |-> 12, bestSeconds |-> 9]],
      [address |-> "a2", body |-> [addMiles |-> 5, bestSeconds |-> 30]] }

NextRollup ==
    \/ \E r \in ReqIds, c \in RollupRequests : AddStart(r, c.address, c.body)
    \/ \E r \in ReqIds : AddActivityUpsert(r)
    \/ \E r \in ReqIds : AddActivityUpdate(r)
    \/ \E r \in ReqIds : StatementFails(r)

SpecRollup == Init /\ [][NextRollup]_vars

-----------------------------------------------------------------------------
(* POST /activity/submit over the game names a client can send: no name, a   *)
(* name that is no game key, a key in another spelling, and greed, the key   *)
(* without an entry in RULES.                                                *)

GameRequests ==
    { [address |-> "a1", body |-> FullRun],
      [address |-> "a1", body |-> [game |-> "hoops", score |-> 100, durationMs |-> 60000]],
      [address |-> "a1", body |-> [score |-> 100, durationMs |-> 60000]],
      [address |-> "a1", body |-> [game |-> "hoops", score |-> 500, durationMs |-> 60000]],
      [address |-> "a1", body |-> [game |-> "hoops", score |-> 600, durationMs |-> 60000]],
      [address |-> "a1", body |-> [game |-> "hoops", score |-> 40, durationMs |-> 5000]],
      [address |-> "a1", body |-> [game |-> "Runner ", miles |-> 20, durationMs |-> 60000]],
      [address |-> "a1",
       body |-> [game |-> "GREED", score |-> 1500, miles |-> 20, durationMs |-> 60000]],
      [address |-> "a2", body |-> [game |-> "greed", score |-> 1500, durationMs |-> 600000]] }

NextGames ==
    \/ \E r \in ReqIds, c \in GameRequests : SubmitStart(r, c.address, c.body)
    \/ \E r \in ReqIds : SubmitTodayBefore(r)
    \/ \E r \in ReqIds : SubmitTodayAfter(r)
    \/ \E r \in ReqIds : LogSessionUpsert(r)
    \/ \E r \in ReqIds : LogSessionInsert(r)
    \/ \E r \in ReqIds : AddActivityUpsert(r)
    \/ \E r \in ReqIds : AddActivityUpdate(r)
    \/ \E r \in ReqIds : StatementFails(r)
    \/ Tick

SpecGames == Init /\ [][NextGames]_vars

-----------------------------------------------------------------------------
(* POST /activity/add over the shapes of its payload: legacy fields only, a  *)
(* score, a duration or a game name alone, an empty game name, zeros,        *)
(* negative values and values that are not numbers.                          *)

AddShapes ==
    { [addCalories |-> 7, addMiles |-> 5, bestSeconds |-> 30],
      [score |-> 5],
      [durationMs |-> 2000, calories |-> 3],
      [game |-> "lift", addCalories |-> 4],
      [game |-> "", addMiles |-> 2],
      [score |-> 0, durationMs |-> 0, bestSeconds |-> 9],
      [score |-> -3, durationMs |-> -5, addCalories |-> -2],
      [nan |-> {"score", "durationMs"}, addCalories |-> 2] }

NextAdd ==
    \/ \E r \in ReqIds, a \in {"a1", "a2"}, b \in AddShapes : AddStart(r, a, b)
    \/ \E r \in ReqIds : AddActivityUpsert(r)
    \/ \E r \in ReqIds : AddActivityUpdate(r)
    \/ \E r \in ReqIds : LogSessionUpsert(r)
    \/ \E r \in ReqIds : LogSessionInsert(r)
    \/ \E r \in ReqIds : StatementFails(r)

SpecAdd == Init /\ [][NextAdd]_vars

-----------------------------------------------------------------------------
(* GET /admin/launch-reset *)

ResetSecrets == {"launch2026", "guess"}

\* if (secret !== "launch2026") return res.status(403)
ResetStart(r, secret) ==
    /\ MayStart(r)
    /\ LET q == [Idle EXCEPT !.kind = "reset"]
       IN  req' = [req EXCEPT ![r] =
                     IF secret # "launch2026" THEN Finish(q, 403)
                     ELSE [q EXCEPT !.pc = "reset_users"]]
    /\ UNCHANGED <<challenges, users, sessions, day>>

\* UPDATE users SET total_calories = 0, total_miles = 0, best_seconds = 0, ...
ResetUsers(r) ==
    /\ req[r].pc = "reset_users"
    /\ users' = [a \in Addr |->
                   IF users[a].exists
                   THEN [users[a] EXCEPT !.total_calories = 0, !.total_miles = 0,
                                         !.best_seconds = 0]
                   ELSE users[a]]
    /\ req' = [req EXCEPT ![r].pc = "reset_sessions"]
    /\ UNCHANGED <<challenges, sessions, day>>

\* TRUNCATE TABLE sessions CASCADE
ResetSessions(r) ==
    /\ req[r].pc = "reset_sessions"
    /\ sessions' = <<>>
    /\ req' = [req EXCEPT ![r].pc = "reset_bot"]
    /\ UNCHANGED <<challenges, users, day>>

\* UPDATE pf_users SET total_calories = 0 (the bot's own table); the answer
ResetBot(r) ==
    /\ req[r].pc = "reset_bot"
    /\ req' = [req EXCEPT ![r] = Finish(req[r], 200)]
    /\ UNCHANGED <<challenges, users, sessions, day>>

\* further bodies of POST /activity/add: negative deltas and candidates
NegativeAddRequests ==
    { [address |-> "a1", body |-> [addCalories |-> -4, addMiles |-> 12, bestSeconds |-> 9]],
      [address |-> "a1", body |-> [addCalories |-> 5, bestSeconds |-> -7]] }

\* the activity endpoints together with the administrative reset
NextAdmin ==
    \/ Next
    \/ \E r \in ReqIds, c \in NegativeAddRequests : AddStart(r, c.address, c.body)
    \/ \E r \in ReqIds, secret \in ResetSecrets : ResetStart(r, secret)
    \/ \E r \in ReqIds : ResetUsers(r)
    \/ \E r \in ReqIds : ResetSessions(r)
    \/ \E r \in ReqIds : ResetBot(r)

SpecAdmin == Init /\ [][NextAdmin]_vars

-----------------------------------------------------------------------------
(* Leaderboards: getLeaderboard, getLeaderboardV2 and their endpoints.  A     *)
(* query is one SELECT.  Day 0 is a Sunday and the last day but one of a     *)
(* month: day 1 opens a week, day 2 opens a month (of 30 days).               *)

normalizeWindow(w) ==
    CASE w = "daily" -> "day"
      [] w = "weekly" -> "week"
      [] w = "monthly" -> "month"
      [] w \in {"day", "week", "month", "lifetime"} -> w
      [] OTHER -> "lifetime"

\* a slip: the upper bound of the limit is left out
LimitV2Uncapped(limit) == Max(1, IF limit = 0 THEN 30 ELSE limit)

\* Math.max(1, Math.min(200, Number(limit || 30)))
LimitV2(limit) == Max(1, Min(200, IF limit = 0 THEN 30 ELSE limit))

\* Math.max(1, Math.min(50, Number(limit) || 3))
LimitGames(limit) == Max(1, Min(50, IF limit = 0 THEN 3 ELSE limit))

\* a slip: the windows are the last 24 hours, 7 days and 30 days
WindowStartRolling(window, now) ==
    CASE window = "day" -> now
      [] window = "week" -> now - 6
      [] window = "month" -> now - 29
      [] OTHER -> 0

\* date_trunc('day' | 'week' | 'month', NOW()); no lower bound otherwise
WindowStart(window, now) ==
    CASE window = "day" -> now
      [] window = "week" -> now - ((now + 6) % 7)
      [] window = "month" -> now - ((now + 28) % 30)
      [] OTHER -> 0

\* a slip: the game filter is left out of the WHERE clause
MatchingAnyGame(s, window, game, now) ==
    SelectSeq(s, LAMBDA x : x.created_at >= WindowStart(window, now))

\* FROM sessions s WHERE 1=1 ${whereTime} ${whereGame}; game "" is no filter
Matching(s, window, game, now) ==
    SelectSeq(s, LAMBDA x : /\ x.created_at >= WindowStart(window, now)
                            /\ IF game = "" THEN TRUE ELSE x.game = game)

\* the rows of address a
OfAddress(s, a) == SelectSeq(s, LAMBDA x : x.address = a)

RECURSIVE SumField(_, _)
SumField(s, f) == IF s = <<>> THEN 0 ELSE Head(s)[f] + SumField(Tail(s), f)

RECURSIVE MaxField(_, _)
MaxField(s, f) == IF s = <<>> THEN 0 ELSE Max(Head(s)[f], MaxField(Tail(s), f))

\* metricExpr, over the rows s of one group
MetricValue(s, metric, game) ==
    CASE metric = "score" ->
            IF game = "basket" THEN MaxField(s, "score") ELSE SumField(s, "score")
      [] metric = "streak" -> MaxField(s, "streak")
      [] metric = "miles" -> SumField(s, "miles")
      [] metric = "duration" -> SumField(s, "duration_ms")
      [] OTHER -> SumField(s, "calories")

\* a slip: the score column adds up for every game
scoreFieldSum(s, game) == SumField(s, "score")

\* const scoreField = isBasket ? "MAX(s.score)" : "SUM(s.score)"
scoreField(s, game) ==
    IF game = "basket" THEN MaxField(s, "score") ELSE SumField(s, "score")

\* GROUP BY s.address: one row for each address with a matching receipt
SessionRows(s, window, metric, game, now) ==
    LET mt == Matching(s, window, game, now)
    IN  { [address |-> a, value |-> MetricValue(OfAddress(mt, a), metric, game),
           score |-> scoreField(OfAddress(mt, a), game)] :
            a \in {mt[i].address : i \in DOMAIN mt} }

\* a slip: the rollup branch always reads the distance column
RollupColumnMiles(metric) == "total_miles"

\* const col = metric === "miles" ? "total_miles" : "total_calories"
RollupColumn(metric) == IF metric = "miles" THEN "total_miles" ELSE "total_calories"

\* SELECT address, ${col} AS value, ... FROM users
RollupRows(u, metric) ==
    { [address |-> a, value |-> u[a][RollupColumn(metric)]] :
        a \in {x \in Addr : u[x].exists} }

\* SELECT address, total_calories, best_seconds, total_miles FROM users
LegacyRows(u) ==
    { [address |-> a, value |-> u[a].total_calories,
       best_seconds |-> u[a].best_seconds, total_miles |-> u[a].total_miles] :
        a \in {x \in Addr : u[x].exists} }

\* a slip: the rows are sorted in ascending order
ByValueAscending(x, y) == x.value < y.value

\* ORDER BY value DESC
ByValue(x, y) == x.value > y.value

\* ORDER BY total_calories DESC, best_seconds DESC
ByCaloriesThenBest(x, y) ==
    IF x.value # y.value THEN x.value > y.value ELSE x.best_seconds > y.best_seconds

\* the ORDER BY clause named order puts x before y
Precedes(order, x, y) ==
    IF order = "value" THEN ByValue(x, y) ELSE ByCaloriesThenBest(x, y)

\* the answers ORDER BY ... LIMIT n can give over the rows T: no row comes
\* after one it precedes, none left out precedes one listed; rows the order
\* does not tell apart come in any order, and any of them fill the last places
Top(T, n, order) ==
    LET k == Min(n, Cardinality(T))
    IN  { q \in [1..k -> T] :
            /\ \A i \in 1..k, j \in 1..k :
                  i < j => q[i] # q[j] /\ ~Precedes(order, q[j], q[i])
            /\ \A t \in T \ {q[i] : i \in 1..k} :
                  \A i \in 1..k : ~Precedes(order, t, q[i]) }

getLeaderboard(u, limit) ==
    Top(LegacyRows(u), Max(1, Min(200, IF limit = 0 THEN 30 ELSE limit)),
        "calories_best")

getLeaderboardV2(u, s, now, window, metric, game, limit) ==
    IF window = "lifetime" /\ metric \in {"calories", "miles"}
    THEN Top(RollupRows(u, metric), LimitV2(limit), "value")
    ELSE Top(SessionRows(s, window, metric, game, now), LimitV2(limit), "value")

\* the query string of GET /leaderboard/v2, as the handler reads it
QueryWindow(b) == normalizeWindow(Field(b, "window", "lifetime"))
QueryMetric(b) == Field(b, "metric", "calories")
QueryGame(b) == IF Has(b, "game") THEN asGameKey(b.game) ELSE ""
\* req.query.limit ? Number(req.query.limit) : 30; a limit that is not a
\* number becomes NaN, which `params.limit || 30` treats as it treats 0
QueryLimit(b) == IF "limit" \in Field(b, "nan", {}) THEN 0 ELSE Field(b, "limit", 30)

\* GET /leaderboard
LeaderboardStart(r) ==
    /\ MayStart(r)
    /\ req' = [req EXCEPT ![r] = [Idle EXCEPT !.kind = "legacy", !.pc = "board_query"]]
    /\ UNCHANGED <<challenges, users, sessions, day>>

\* GET /leaderboard/v2
LeaderboardV2Start(r, b) ==
    /\ MayStart(r)
    /\ req' = [req EXCEPT ![r] =
                 [Idle EXCEPT !.kind = "v2", !.body = b, !.pc = "board_query"]]
    /\ UNCHANGED <<challenges, users, sessions, day>>

\* GET /leaderboard/games
LeaderboardGamesStart(r, b) ==
    /\ MayStart(r)
    /\ req' = [req EXCEPT ![r] =
                 [Idle EXCEPT !.kind = "games", !.body = b, !.pc = "board_query"]]
    /\ UNCHANGED <<challenges, users, sessions, day>>

\* const top = await getLeaderboard(30); res.json(...)
GetLeaderboard(r) ==
    /\ req[r].pc = "board_query" /\ req[r].kind = "legacy"
    /\ \E rows \in getLeaderboard(users, 30) :
          req' = [req EXCEPT ![r] = Finish([req[r] EXCEPT !.rows = rows], 200)]
    /\ UNCHANGED <<challenges, users, sessions, day>>

\* const games: GameKey[] = ["runner", "snack", "lift", "basket", "greed"]
GamesOrder == <<"runner", "snack", "lift", "basket", "greed">>

\* a slip: the query registers every ranked address as seen
GetLeaderboardV2Touching(r) ==
    /\ req[r].pc = "board_query" /\ req[r].kind = "v2"
    /\ LET q == req[r]
       IN  \E rows \in getLeaderboardV2(users, sessions, day, QueryWindow(q.body),
                                        QueryMetric(q.body), QueryGame(q.body),
                                        QueryLimit(q.body)) :
              /\ req' = [req EXCEPT ![r] = Finish([q EXCEPT !.rows = rows], 200)]
              /\ users' = upsertUser(users, "a2")
    /\ UNCHANGED <<challenges, sessions, day>>

\* const rows = await getLeaderboardV2({ window, metric, game, limit }); for
\* /leaderboard/games one call for each game in turn, metric score
GetLeaderboardV2(r) ==
    /\ req[r].pc = "board_query" /\ req[r].kind \in {"v2", "games"}
    /\ LET q == req[r]
       IN  IF q.kind = "v2"
           THEN \E rows \in getLeaderboardV2(users, sessions, day, QueryWindow(q.body),
                                             QueryMetric(q.body), QueryGame(q.body),
                                             QueryLimit(q.body)) :
                   req' = [req EXCEPT ![r] =
                             Finish([q EXCEPT !.rows = rows,
                                              !.limit = LimitV2(QueryLimit(q.body))],
                                    200)]
           ELSE \E rows \in getLeaderboardV2(users, sessions, day, QueryWindow(q.body),
                                             "score", GamesOrder[Len(q.rows) + 1],
                                             LimitGames(Field(q.body, "limit", 3))) :
                   LET got == [q EXCEPT !.rows = Append(q.rows, rows)]
                   IN  req' = [req EXCEPT ![r] =
                                 IF Len(got.rows) = Len(GamesOrder)
                                 THEN Finish(got, 200) ELSE got]
    /\ UNCHANGED <<challenges, users, sessions, day>>

\* the store after the submissions of h were served one after another on day 0
RECURSIVE Served(_)
Served(h) ==
    IF h = <<>> THEN [sessions |-> <<>>, users |-> [a \in Addr |-> NoRow]]
    ELSE LET before == Served(SubSeq(h, 1, Len(h) - 1))
             c == h[Len(h)]
             game == SubmitGame(c.body)
             calc == computeEarnedCalories(game, SubmitScore(c.body),
                                           SubmitMiles(c.body), SubmitDurationMs(c.body))
             q == [Idle EXCEPT !.kind = "submit", !.address = c.address,
                               !.body = c.body,
                               !.earned = calc.earnedCalories, !.reason = calc.reason,
                               !.capped = EarnedCapped(calc.earnedCalories,
                                             Remaining(RulesOrCommon(game),
                                                 getTodayAgg(before.sessions,
                                                             c.address, game, 0)))]
             args == addActivityArgs(ActivityParams(q))
         IN  [sessions |-> insertSession(before.sessions,
                               sessionRow(LogParams(q), 0, "submit", q.earned)),
              users |-> updateRollup(upsertUser(before.users, c.address), c.address,
                                     args.addCalories, args.addMiles, args.bestSeconds)]

\* two users level on every metric
TiedHistory ==
    << [address |-> "a1", body |-> FullRun],
       [address |-> "a2", body |-> FullRun] >>

\* two users with receipts of several games
MixedHistory ==
    << [address |-> "a1", body |-> FullRun],
       [address |-> "a1",
        body |-> [game |-> "runner", miles |-> 20, durationMs |-> 60000, bestSeconds |-> 60]],
       [address |-> "a2",
        body |-> [game |-> "basket", score |-> 50, durationMs |-> 60000, streak |-> 7]],
       [address |-> "a2",
        body |-> [game |-> "basket", score |-> 30, durationMs |-> 60000, streak |-> 3]] >>

BoardHistories == {<<>>, TiedHistory, MixedHistory}

InitBoard ==
    /\ \E h \in BoardHistories :
          /\ sessions = Served(h).sessions
          /\ users = Served(h).users
    /\ day = 0
    /\ req = [r \in ReqIds |-> Idle]
    /\ challenges = NoChallenges

\* the query strings of the modelled runs
BoardQueries ==
    { [window |-> w, metric |-> m, game |-> g] :
        w \in {"lifetime", "day", "weekly", "month"},
        m \in {"calories", "score", "miles", "duration", "streak"},
        g \in {"snack", "basket"} }
    \cup { [window |-> w, metric |-> m] :
             w \in {"lifetime", "day", "week", "monthly"},
             m \in {"calories", "score", "miles", "duration", "streak"} }
    \cup { [limit |-> l] : l \in {-3, 0, 1, 200, 500} }
    \cup { [metric |-> "miles", limit |-> 1],
           [metric |-> "score", nan |-> {"limit"}],
           [window |-> "lifetime", metric |-> "calories", game |-> "runner"],
           [window |-> "month", metric |-> "score", game |-> "hoops", limit |-> 500] }

GamesQueries == { NoBody, [window |-> "daily", limit |-> 1] }

\* the submissions made while the leaderboards are read
BoardWrites ==
    { [address |-> "a2", body |-> FullRun],
      [address |-> "a1",
       body |-> [game |-> "runner", miles |-> 20, durationMs |-> 60000, bestSeconds |-> 60]] }

NextBoard ==
    \/ \E r \in ReqIds : LeaderboardStart(r)
    \/ \E r \in ReqIds, b \in BoardQueries : LeaderboardV2Start(r, b)
    \/ \E r \in ReqIds, b \in GamesQueries : LeaderboardGamesStart(r, b)
    \/ \E r \in ReqIds : GetLeaderboard(r)
    \/ \E r \in ReqIds : GetLeaderboardV2(r)
    \/ \E r \in ReqIds, c \in BoardWrites : SubmitStart(r, c.address, c.body)
    \/ \E r \in ReqIds : SubmitTodayBefore(r)
    \/ \E r \in ReqIds : LogSessionUpsert(r)
    \/ \E r \in ReqIds : LogSessionInsert(r)
    \/ \E r \in ReqIds : AddActivityUpsert(r)
    \/ \E r \in ReqIds : AddActivityUpdate(r)
    \/ \E r \in ReqIds : SubmitTodayAfter(r)
    \/ \E r \in ReqIds : StatementFails(r)
    \/ Tick

SpecBoard == InitBoard /\ [][NextBoard]_vars

\* the leaderboards read twice over a store nothing writes to
NextBoardRead ==
    \/ \E r \in ReqIds : LeaderboardStart(r)
    \/ \E r \in ReqIds, b \in BoardQueries : LeaderboardV2Start(r, b)
    \/ \E r \in ReqIds : GetLeaderboard(r)
    \/ \E r \in ReqIds : GetLeaderboardV2(r)

SpecBoardRead == InitBoard /\ [][NextBoardRead]_vars

-----------------------------------------------------------------------------
(* Display names: POST /profile/name, POST /auth/telegram and the bot's      *)
(* callback_query handler.  A name is a sequence of characters.               *)

NameMax == 24
NameMin == 2

\* String.prototype.trim, with the space for every white-space character
RECURSIVE TrimLeft(_)
TrimLeft(s) == IF s # <<>> /\ Head(s) = " " THEN TrimLeft(Tail(s)) ELSE s

RECURSIVE TrimRight(_)
TrimRight(s) ==
    IF s # <<>> /\ s[Len(s)] = " " THEN TrimRight(SubSeq(s, 1, Len(s) - 1)) ELSE s

trim(s) == TrimRight(TrimLeft(s))

\* .replace(/\s+/g, " ")
RECURSIVE collapse(_)
collapse(s) ==
    IF Len(s) < 2 THEN s
    ELSE IF s[1] = " " /\ s[2] = " " THEN collapse(Tail(s))
         ELSE <<s[1]>> \o collapse(Tail(s))

\* .slice(0, n)
slice(s, n) == SubSeq(s, 1, Min(n, Len(s)))

\* setDisplayName: the name that is stored for the displayName given
NormalName(raw) == slice(collapse(trim(raw)), NameMax)

\* UPDATE users SET display_name = $2 WHERE address = $1
storeName(u, a, name) == [u EXCEPT ![a].display_name = name]

Member == <<"M", "e", "m", "b", "e", "r">>

\* [firstName, lastName].filter(Boolean).join(" ")
JoinNames(first, last) ==
    IF first = <<>> THEN last
    ELSE IF last = <<>> THEN first ELSE first \o <<" ">> \o last

\* the displayName the Telegram handlers pass to setDisplayName
TelegramDisplayName(user) ==
    IF user.username # <<>> THEN <<"@">> \o user.username
    ELSE IF slice(trim(JoinNames(user.first_name, user.last_name)), NameMax) # <<>>
         THEN slice(trim(JoinNames(user.first_name, user.last_name)), NameMax)
         ELSE Member

\* .replace(/^@/, "")
StripAt(s) == IF s # <<>> /\ Head(s) = "@" THEN Tail(s) ELSE s

\* setTelegramIdentity: fallbackDisplayName
fallbackDisplayName(user) ==
    IF StripAt(trim(user.username)) # <<>> THEN <<"@">> \o StripAt(trim(user.username))
    ELSE IF trim(JoinNames(trim(user.first_name), trim(user.last_name))) # <<>>
         THEN trim(JoinNames(trim(user.first_name), trim(user.last_name)))
         ELSE Member

\* display_name = COALESCE(NULLIF(display_name, ''), $6)
TelegramNameIfNone(old, fallback) == IF old = <<>> THEN fallback ELSE old

\* `tg:${tgIdNum}`
TgAddress(id) == IF id = 7 THEN "tg:7" ELSE ""

NoUser == [id |-> 0, username |-> <<>>, first_name |-> <<>>, last_name |-> <<>>]

\* POST /profile/name, up to the first await
NameStart(r, a, raw) ==
    /\ MayStart(r)
    /\ LET q == [Idle EXCEPT !.kind = "name", !.address = a,
                             !.body = [displayName |-> raw],
                             !.name = NormalName(raw)]
       IN  req' = [req EXCEPT ![r] =
                     IF Len(q.name) < NameMin THEN Finish(q, 400)
                     ELSE [q EXCEPT !.pc = "name_upsert"]]
    /\ UNCHANGED <<challenges, users, sessions, day>>

\* setDisplayName: await upsertUser(address)
NameUpsert(r) ==
    /\ req[r].pc = "name_upsert"
    /\ users' = upsertUser(users, req[r].address)
    /\ req' = [req EXCEPT ![r].pc = "name_update"]
    /\ UNCHANGED <<challenges, sessions, day>>

\* what a Telegram handler does once its setDisplayName is over
AfterTelegramName(q) ==
    IF q.kind = "tg_auth" THEN [q EXCEPT !.pc = "tg_me"] ELSE Finish(q, 200)

\* setDisplayName: UPDATE users SET display_name = $2 ...; the handler goes on
NameUpdate(r) ==
    /\ req[r].pc = "name_update"
    /\ users[req[r].address].exists
    /\ users' = storeName(users, req[r].address, req[r].name)
    /\ LET q == [req[r] EXCEPT !.me = users'[req[r].address]]
       IN  req' = [req EXCEPT ![r] =
                     IF q.kind = "name" THEN Finish(q, 200) ELSE AfterTelegramName(q)]
    /\ UNCHANGED <<challenges, sessions, day>>

\* POST /auth/telegram (kind tg_auth) and the bot's callback_query handler
\* (kind tg_game), up to the first await; user is the verified Telegram user
TelegramStart(r, kind, user) ==
    /\ MayStart(r)
    /\ LET q == [Idle EXCEPT !.kind = kind, !.address = TgAddress(user.id),
                             !.body = user]
       IN  req' = [req EXCEPT ![r] =
                     IF user.id = 0
                     THEN Finish(q, IF kind = "tg_auth" THEN 401 ELSE 200)
                     ELSE [q EXCEPT !.pc = "tg_upsert"]]
    /\ UNCHANGED <<challenges, users, sessions, day>>

\* await upsertUser(address), by the handler and again by setTelegramIdentity
TelegramUpsert(r) ==
    /\ req[r].pc \in {"tg_upsert", "tgid_upsert"}
    /\ users' = upsertUser(users, req[r].address)
    /\ req' = [req EXCEPT ![r].pc =
                 IF req[r].pc = "tg_upsert" THEN "tgid_upsert" ELSE "tgid_update"]
    /\ UNCHANGED <<challenges, sessions, day>>

\* setTelegramIdentity: UPDATE users SET tg_id = $2, ..., display_name =
\* COALESCE(NULLIF(display_name, ''), $6); then the handler's own displayName
TelegramIdentityUpdate(r) ==
    /\ req[r].pc = "tgid_update"
    /\ users[req[r].address].exists
    /\ LET a == req[r].address
           q == [req[r] EXCEPT !.name = NormalName(TelegramDisplayName(req[r].body))]
       IN  /\ users' = [users EXCEPT ![a].display_name =
                           TelegramNameIfNone(users[a].display_name,
                                              fallbackDisplayName(q.body))]
           /\ req' = [req EXCEPT ![r] =
                        IF /\ Len(trim(TelegramDisplayName(q.body))) >= NameMin
                           /\ Len(q.name) >= NameMin
                        THEN [q EXCEPT !.pc = "name_upsert"]
                        ELSE AfterTelegramName(q)]
    /\ UNCHANGED <<challenges, sessions, day>>

\* POST /auth/telegram: const me = await getMe(address)
TelegramMe(r) ==
    /\ req[r].pc = "tg_me"
    /\ req' = [req EXCEPT ![r] = Finish([req[r] EXCEPT !.me = users[req[r].address]], 200)]
    /\ UNCHANGED <<challenges, users, sessions, day>>

\* a statement of the store fails in one of these handlers: /profile/name
\* and /auth/telegram answer 500 and the bot's handler opens the site without
\* a token (status 0), except that both Telegram handlers ignore a failure of
\* their setDisplayName and go on
ProfileStatementFails(r) ==
    /\ req[r].pc \in {"name_upsert", "name_update", "tg_upsert", "tgid_upsert",
                      "tgid_update", "tg_me"}
    /\ LET q == [req[r] EXCEPT !.failedAt = req[r].pc]
       IN  req' = [req EXCEPT ![r] =
                     IF q.kind # "name" /\ q.pc \in {"name_upsert", "name_update"}
                     THEN AfterTelegramName(q)
                     ELSE Finish(q, IF q.kind = "tg_game" THEN 0 ELSE 500)]
    /\ UNCHANGED <<challenges, users, sessions, day>>

NameRequests ==
    { [address |-> "a1", displayName |-> <<"J", "o">>],
      [address |-> "a2", displayName |-> <<" ", "J", "o", " ">>],
      [address |-> "a2", displayName |-> <<"A", " ", " ", "b">>],
      [address |-> "a1", displayName |-> <<" ", "J", " ">>],
      [address |-> "a1",
       displayName |-> [i \in 1..(NameMax + 2) |-> IF i = 3 THEN " " ELSE "x"]],
      [address |-> "a1", displayName |-> <<"@", "j", "o">>],
      [address |-> "tg:7", displayName |-> <<"J", "o">>] }

TelegramUsers ==
    { [NoUser EXCEPT !.id = 7, !.username = <<"j", "o">>],
      [NoUser EXCEPT !.id = 7, !.first_name = <<"A">>, !.last_name = <<"b">>],
      [NoUser EXCEPT !.id = 7],
      NoUser }

NextProfile ==
    \/ \E r \in ReqIds, c \in NameRequests : NameStart(r, c.address, c.displayName)
    \/ \E r \in ReqIds : NameUpsert(r)
    \/ \E r \in ReqIds : NameUpdate(r)
    \/ \E r \in ReqIds, k \in {"tg_auth", "tg_game"}, u \in TelegramUsers :
          TelegramStart(r, k, u)
    \/ \E r \in ReqIds : TelegramUpsert(r)
    \/ \E r \in ReqIds : TelegramIdentityUpdate(r)
    \/ \E r \in ReqIds : TelegramMe(r)
    \/ \E r \in ReqIds : ProfileStatementFails(r)
    \/ \E r \in ReqIds, c \in RollupRequests : AddStart(r, c.address, c.body)
    \/ \E r \in ReqIds : AddActivityUpsert(r)
    \/ \E r \in ReqIds : AddActivityUpdate(r)

\* the store of Init, where the user who has played may have chosen a name
InitProfile ==
    /\ \E k \in {0, PriorRuns}, name \in {<<>>, <<"A", "l">>} :
          /\ sessions = PriorLedger(k)
          /\ users = IF k = 0 THEN PriorUsers(PriorLedger(k))
                     ELSE storeName(PriorUsers(PriorLedger(k)), "a1", name)
    /\ day = 0
    /\ req = [r \in ReqIds |-> Idle]
    /\ challenges = NoChallenges

SpecProfile == InitProfile /\ [][NextProfile]_vars

-----------------------------------------------------------------------------
(* Wallet sign-in: POST /auth/challenge and POST /auth/verify.  A request is  *)
(* served by one of the server processes; the clock counts days, so that a    *)
(* challenge, good for five minutes, is expired once the day has changed.     *)

Nonces == {"n1", "n2"}

\* the text to sign: it names the wallet, the nonce and the time of issue
Message(a, ch) == [address |-> a, nonce |-> ch.nonce, issue |-> ch.issue]

\* nacl.sign.detached.verify(msgBytes, sigBytes, pubkeyBytes): the signature
\* was made with the key of the address over this very message
SignatureOk(a, signature, ch) ==
    signature.signer = a /\ signature.message = Message(a, ch)

\* POST /auth/challenge: challenges.set(address, {nonce, message, exp}); issue
\* stands for the time the message carries
Challenge(r, i, b, n) ==
    /\ MayStart(r)
    /\ LET q == [Idle EXCEPT !.kind = "challenge", !.instance = i, !.body = b,
                             !.address = Field(b, "address", "")]
           ch == [held |-> TRUE, nonce |-> n, exp |-> day, issue |-> r]
       IN  IF ~Has(b, "address")
           THEN /\ req' = [req EXCEPT ![r] = Finish(q, 400)]
                /\ UNCHANGED challenges
           ELSE /\ challenges' = [challenges EXCEPT ![i][b.address] = ch]
                /\ req' = [req EXCEPT ![r] = Finish([q EXCEPT !.challenge = ch], 200)]
    /\ UNCHANGED <<users, sessions, day>>

\* POST /auth/verify, up to its await
VerifyStart(r, i, b) ==
    /\ MayStart(r)
    /\ LET q == [Idle EXCEPT !.kind = "verify", !.instance = i, !.body = b,
                             !.address = Field(b, "address", "")]
           ch == challenges[i][q.address]
       IN  IF ~(Has(b, "address") /\ Has(b, "nonce") /\ Has(b, "signature"))
           THEN /\ req' = [req EXCEPT ![r] = Finish(q, 400)]
                /\ UNCHANGED challenges
           ELSE IF ~ch.held
           THEN /\ req' = [req EXCEPT ![r] = Finish(q, 400)]
                /\ UNCHANGED challenges
           ELSE IF day > ch.exp
           THEN /\ challenges' = [challenges EXCEPT ![i][q.address] = NoChallenge]
                /\ req' = [req EXCEPT ![r] = Finish(q, 400)]
           ELSE IF b.nonce # ch.nonce
           THEN /\ req' = [req EXCEPT ![r] = Finish(q, 400)]
                /\ UNCHANGED challenges
           ELSE IF ~SignatureOk(q.address, b.signature, ch)
           THEN /\ req' = [req EXCEPT ![r] = Finish(q, 401)]
                /\ UNCHANGED challenges
           ELSE /\ req' = [req EXCEPT ![r] =
                             [q EXCEPT !.pc = "verify_upsert", !.challenge = ch]]
                /\ UNCHANGED challenges
    /\ UNCHANGED <<users, sessions, day>>

\* await upsertUser(address); challenges.delete(address); the token is sent
VerifyUpsert(r) ==
    /\ req[r].pc = "verify_upsert"
    /\ users' = upsertUser(users, req[r].address)
    /\ challenges' = [challenges EXCEPT ![req[r].instance][req[r].address] = NoChallenge]
    /\ req' = [req EXCEPT ![r] = Finish(req[r], 200)]
    /\ UNCHANGED <<sessions, day>>

\* upsertUser throws: catch, 400 "Verify error"; the challenge stays
VerifyFails(r) ==
    /\ req[r].pc = "verify_upsert"
    /\ req' = [req EXCEPT ![r] = Finish([req[r] EXCEPT !.failedAt = req[r].pc], 400)]
    /\ UNCHANGED <<challenges, users, sessions, day>>

\* the challenge the wallet a1 was issued by the first process before the run
PriorChallenge == [held |-> TRUE, nonce |-> "n1", exp |-> 0, issue |-> 0]

ChallengeRequests == { [address |-> "a1"], NoBody }

\* the bodies of /auth/verify: the wallet signs the message it was shown, or
\* the message of another nonce, or somebody else signs
VerifyRequests ==
    { [address |-> "a1", nonce |-> n,
       signature |-> [signer |-> s,
                      message |-> [address |-> "a1", nonce |-> m, issue |-> k]]] :
        n \in Nonces, s \in {"a1", "a2"}, m \in Nonces, k \in 0..1 }
    \cup { [address |-> "a1", nonce |-> "n1"] }

InitAuth ==
    /\ users = [a \in Addr |-> NoRow]
    /\ sessions = <<>>
    /\ day = 0
    /\ req = [r \in ReqIds |-> Idle]
    /\ \E ch \in {NoChallenge, PriorChallenge} :
          challenges = [NoChallenges EXCEPT !["i1"]["a1"] = ch]

NextAuth ==
    \/ \E r \in ReqIds, i \in Instances, b \in ChallengeRequests, n \in Nonces :
          Challenge(r, i, b, n)
    \/ \E r \in ReqIds, i \in Instances, b \in VerifyRequests : VerifyStart(r, i, b)
    \/ \E r \in ReqIds : VerifyUpsert(r)
    \/ \E r \in ReqIds : VerifyFails(r)
    \/ Tick

SpecAuth == InitAuth /\ [][NextAuth]_vars

-----------------------------------------------------------------------------
(* Claims *)

Days == 0..MaxDay

DailyCap(g) == RulesOrCommon(g).dailyCapCalories

ViaSubmit(s) == SelectSeq(s, LAMBDA x : x.via = "submit")
ViaAdd(s) == SelectSeq(s, LAMBDA x : x.via = "add")

RECURSIVE SumProv(_)
SumProv(s) == IF s = <<>> THEN 0 ELSE Head(s).prov + SumProv(Tail(s))

\* C1: for every address, game and day, the calories of the receipts that
\* /activity/submit created that day for the pair add up to at most the
\* game's dailyCapCalories, however the submissions interleave.
C1_DailyCapNeverExceeded ==
    \A a \in Addr, g \in GameKeys, d \in Days :
        SumCalories(ViaSubmit(PairDay(sessions, a, g, d))) <= DailyCap(g)

\* a submission of the pair holds a capped amount it has not yet written
CapPending(a, g) ==
    \E r \in ReqIds :
        /\ req[r].kind = "submit"
        /\ req[r].pc \in {"log_upsert", "log_insert"}
        /\ req[r].address = a
        /\ SubmitGame(req[r].body) = g

\* C2: the submissions of one pair are credited, jointly, what some serial
\* order of them would credit: min(headroom, sum of their provisional
\* amounts), i.e. min(dailyCap, sum) counted from the start of the day
\* (stated for the first day, for pairs that hold no legacy receipt, once no
\* submission of the pair is between its read and its write).
C2_JointCreditIsSerial ==
    \A a \in Addr, g \in GameKeys :
        (/\ day = 0
         /\ ViaAdd(PairDay(sessions, a, g, 0)) = <<>>
         /\ ~CapPending(a, g))
        => SumCalories(PairDay(sessions, a, g, 0))
              = Min(DailyCap(g), SumProv(PairDay(sessions, a, g, 0)))

\* C4: a finished /activity/submit has persisted both its receipt and its
\* rollup increase, or neither.
C4_ReceiptAndRollupTogether ==
    \A r \in ReqIds :
        (req[r].kind = "submit" /\ req[r].pc = "done")
        => (req[r].wroteReceipt <=> req[r].wroteRollup)

\* C8: every stored receipt, written by /activity/submit or by /activity/add,
\* carries a post-cap amount: at most the per-run cap of its game, and the
\* receipts of its (address, game, day) stay within the daily cap.
C8_ReceiptsArePostCap ==
    \A i \in DOMAIN sessions :
        LET x == sessions[i]
        IN  /\ x.calories <= RulesOrCommon(x.game).maxRunCalories
            /\ SumCalories(PairDay(sessions, x.address, x.game, x.created_at))
                  <= DailyCap(x.game)

AllGamesDailyCap ==
    DailyCap("runner") + DailyCap("snack") + DailyCap("lift") + DailyCap("basket")
      + DailyCap("greed")

\* C9: within one day a user's total_calories grows by at most the sum over
\* the games of dailyCapCalories, on any endpoint (stated for day 0, on
\* which every total starts from what the day's earlier receipts credited).
C9_RollupGrowthWithinCaps ==
    \A a \in Addr : day = 0 => users[a].total_calories <= AllGamesDailyCap

\* the receipts before position i
Before(i) == SubSeq(sessions, 1, i - 1)

\* C3: with the requests arriving one after another, every receipt of
\* /activity/submit carries max(0, min(provisional, dailyCap - what the day
\* had already credited to its pair)); so once the provisional amounts of a
\* pair's submissions exceed dailyCap the day's credited sum is exactly
\* dailyCap (for a pair and day without legacy receipts).
C3_SequentialCredit ==
    /\ \A i \in DOMAIN sessions :
          LET x == sessions[i]
              already == SumCalories(PairDay(Before(i), x.address, x.game, x.created_at))
          IN  x.via = "submit"
              => x.calories = Max(0, Min(x.prov, DailyCap(x.game) - already))
    /\ \A a \in Addr, g \in GameKeys, d \in Days :
          LET pd == PairDay(sessions, a, g, d)
          IN  (ViaAdd(pd) = <<>> /\ SumProv(pd) > DailyCap(g))
              => SumCalories(pd) = DailyCap(g)

\* one submission of the run was cut down to the headroom left and a later
\* one of the same pair, though granted a positive amount, was credited 0
C3_Witness ==
    \E r \in ReqIds, q \in ReqIds :
        /\ req[r].kind = "submit" /\ req[r].wroteReceipt
        /\ req[q].kind = "submit" /\ req[q].wroteReceipt
        /\ req[r].address = req[q].address
        /\ SubmitGame(req[r].body) = SubmitGame(req[q].body)
        /\ 0 < req[r].capped /\ req[r].capped < req[r].earned
        /\ req[q].earned > 0 /\ req[q].capped = 0
        /\ getTodayAgg(sessions, req[r].address, SubmitGame(req[r].body), day)
              = DailyCap(SubmitGame(req[r].body))

\* amount <= min(maxRunCalories, durationMinutes * cpmCap), in integers
WithinRunCaps(amount, game, durationMs) ==
    LET rules == RulesOrCommon(game)
    IN  /\ amount <= rules.maxRunCalories
        /\ amount * MsPerMinute <= Max(0, durationMs) * rules.cpmCap

\* the requests that hold a result of computeEarnedCalories
Computed == {r \in ReqIds : req[r].kind \in {"calc", "submit"} /\ req[r].status # 400
                            /\ req[r].pc # "idle"}

\* C5: every amount computeEarnedCalories returns, and every calories value
\* /activity/submit stores, is at most min(maxRunCalories, durationMinutes *
\* cpmCap) of the game's rules.
C5_WithinRunAndTimeCaps ==
    /\ \A r \in Computed :
          WithinRunCaps(req[r].earned, SubmitGame(req[r].body),
                        SubmitDurationMs(req[r].body))
    /\ \A i \in DOMAIN sessions :
          sessions[i].via = "submit"
          => WithinRunCaps(sessions[i].calories, sessions[i].game,
                           sessions[i].duration_ms)

\* a submission stored a receipt whose amount is the time cap, below the
\* per-run cap and below the base amount of its score
C5_Witness ==
    \E r \in ReqIds :
        LET b == req[r].body
            rules == RulesOrCommon(SubmitGame(b))
        IN  /\ req[r].kind = "submit" /\ req[r].wroteReceipt
            /\ req[r].capped = req[r].earned
            /\ 0 < req[r].earned /\ req[r].earned < rules.maxRunCalories
            /\ (req[r].earned + 1) * MsPerMinute > SubmitDurationMs(b) * rules.cpmCap
            /\ BaseScaled(SubmitGame(b), SubmitScore(b), SubmitMiles(b),
                          SubmitDurationMs(b))
                  > TimeCapScaled(rules, SubmitDurationMs(b))

\* C6: for every game that has a minimum qualifying duration (every game of
\* the rules table), computeEarnedCalories returns amount 0 with reason
\* too_short whenever the submitted durationMs is below that minimum, whatever
\* the score and the distance. (greed has no entry in the table; its amount
\* is 0 at every duration.)
C6_TooShortEarnsNothing ==
    \A r \in Computed :
        LET g == SubmitGame(req[r].body)
            d == SubmitDurationMs(req[r].body)
        IN  /\ (g \in RuleGames /\ d < RULES[g].minDurationMs)
               => req[r].earned = 0 /\ req[r].reason = "too_short"
            /\ d < RulesOrCommon(g).minDurationMs => req[r].earned = 0

\* a large score and a long distance, played for less than the minimum
C6_Witness ==
    \E r \in Computed :
        /\ SubmitGame(req[r].body) \in RuleGames
        /\ 0 < SubmitDurationMs(req[r].body)
        /\ SubmitDurationMs(req[r].body) < RULES[SubmitGame(req[r].body)].minDurationMs
        /\ SubmitScore(req[r].body) >= 100 /\ SubmitMiles(req[r].body) >= 20
        /\ req[r].reason = "too_short"

\* score / durationMinutes > the game's ceiling (the duration as submitted)
RateExceeds(b) ==
    /\ SubmitDurationMs(b) > 0
    /\ Max(0, SubmitScore(b)) * MsPerMinute
          > SCORE_PER_MIN_CAP[SubmitGame(b)] * SubmitDurationMs(b)

ScoreGames == {"snack", "lift", "basket"}

\* C7 as claimed: for every game with a ceiling except runner, a score rate
\* above the ceiling yields amount 0 with reason score_too_high; runner is
\* never rejected as score_too_high.
C7_ScoreRateAlwaysRejected ==
    \A r \in Computed :
        LET b == req[r].body
        IN  /\ (SubmitGame(b) \in ScoreGames /\ RateExceeds(b))
               => req[r].earned = 0 /\ req[r].reason = "score_too_high"
            /\ SubmitGame(b) = "runner" => req[r].reason # "score_too_high"

\* C7 amended: for snack, lift and basket, a submission that lasts at least
\* the game's minimum duration and whose score rate exceeds the ceiling yields
\* amount 0 with reason score_too_high (a shorter one is rejected as
\* too_short, also with amount 0); runner and greed are never rejected as
\* score_too_high.
C7_ScoreRateRejectedWhenLongEnough ==
    \A r \in Computed :
        LET b == req[r].body
            g == SubmitGame(b)
        IN  /\ (g \in ScoreGames /\ RateExceeds(b))
               => /\ req[r].earned = 0
                  /\ req[r].reason = IF SubmitDurationMs(b) < RULES[g].minDurationMs
                                     THEN "too_short" ELSE "score_too_high"
            /\ g \in {"runner", "greed"} => req[r].reason # "score_too_high"

\* rejected for its rate although its base amount is under the per-run cap
\* and its total score under the ceiling
C7_Witness ==
    \E r \in Computed :
        LET b == req[r].body
        IN  /\ req[r].reason = "score_too_high"
            /\ SubmitScore(b) < SCORE_PER_MIN_CAP[SubmitGame(b)]
            /\ BaseScaled(SubmitGame(b), SubmitScore(b), SubmitMiles(b),
                          SubmitDurationMs(b))
                  < RULES[SubmitGame(b)].maxRunCalories * Scale

\* the addActivity calls for address a whose UPDATE has been applied
Applied(a) == {r \in ReqIds : req[r].address = a /\ req[r].wroteRollup}

AppliedArgs(r) == addActivityArgs(ActivityParams(req[r]))

\* the sum, over the calls of S, of argument k
RECURSIVE SumOver(_, _)
SumOver(S, k) ==
    IF S = {} THEN 0
    ELSE LET x == CHOOSE y \in S : TRUE IN AppliedArgs(x)[k] + SumOver(S \ {x}, k)

\* the greatest, over the calls of S, of argument k (0 for none)
RECURSIVE MaxOver(_, _)
MaxOver(S, k) ==
    IF S = {} THEN 0
    ELSE LET x == CHOOSE y \in S : TRUE IN Max(AppliedArgs(x)[k], MaxOver(S \ {x}, k))

\* the users table of the initial state (the ledger is not written in SpecRollup)
RowAtStart(a) == PriorUsers(sessions)[a]

\* C10: concurrent addActivity calls lose no update: at any moment the row of
\* an address holds its totals at the start plus the deltas of the calls
\* applied so far, and the maximum of its best_seconds at the start and their
\* candidates; a row that did not exist counts from 0.
C10_NoLostRollupUpdate ==
    \A a \in Addr :
        /\ users[a].total_calories
              = RowAtStart(a).total_calories + SumOver(Applied(a), "addCalories")
        /\ users[a].total_miles
              = RowAtStart(a).total_miles + SumOver(Applied(a), "addMiles")
        /\ users[a].best_seconds
              = Max(RowAtStart(a).best_seconds, MaxOver(Applied(a), "bestSeconds"))
        /\ Applied(a) # {} => users[a].exists

\* two calls for one address that had no row were in flight together (the
\* first to update did so while the other was inside addActivity) and both
\* have been applied
C10_Witness ==
    /\ ~RowAtStart("a1").exists
    /\ Cardinality(Applied("a1")) = 2
    /\ \E r \in Applied("a1") : req[r].overlapped
    /\ users["a1"].total_calories = 7050
    /\ users["a1"].best_seconds = 30

\* the step in which request r's UPDATE of addActivity is applied
ApplyStep(r) == req[r].pc = "add_update" /\ ~req[r].wroteRollup /\ req'[r].wroteRollup

\* the steps of the administrative reset that write
ResetUsersStep == \E r \in ReqIds : req[r].pc = "reset_users" /\ req'[r].pc = "reset_sessions"
ResetSessionsStep == \E r \in ReqIds : req[r].pc = "reset_sessions" /\ req'[r].pc = "reset_bot"

\* C11: best_seconds of a user never decreases in a step of /activity/submit
\* or /activity/add (in any step but the reset's), and the apply of a rollup
\* with candidate c leaves it at max(previous value, c).
C11_BestSecondsMonotone ==
    [][ \A a \in Addr :
          /\ ~ResetUsersStep => users'[a].best_seconds >= users[a].best_seconds
          /\ \A r \in ReqIds :
                (ApplyStep(r) /\ req[r].address = a)
                => users'[a].best_seconds
                      = Max(users[a].best_seconds, ActivityParams(req[r]).bestSeconds)
      ]_vars

\* applies with a candidate below the stored best (one of them negative) and
\* an apply with a candidate that became the best have happened
C11_Witness ==
    \E r \in ReqIds, q \in ReqIds :
        /\ req[r].wroteRollup /\ req[q].wroteRollup
        /\ req[r].address = req[q].address
        /\ ActivityParams(req[r]).bestSeconds < 0
        /\ ActivityParams(req[q]).bestSeconds > 0
        /\ users[req[q].address].best_seconds = ActivityParams(req[q]).bestSeconds

\* C12: total_calories of every user is a non-negative integer in every
\* reachable state, and a step that lowers it is the UPDATE of the
\* administrative reset.
C12_TotalNonNegativeMonotone ==
    /\ [](\A a \in Addr : users[a].total_calories \in Nat)
    /\ [][ \A a \in Addr :
             users'[a].total_calories < users[a].total_calories => ResetUsersStep
         ]_vars

\* a negative delta was applied, and the reset has zeroed a total that the
\* ledger (not yet truncated) shows to have been positive
C12_Witness ==
    /\ \E q \in ReqIds : req[q].wroteRollup /\ ActivityParams(req[q]).addCalories < 0
    /\ \E r \in ReqIds : req[r].kind = "reset" /\ req[r].pc = "reset_sessions"
    /\ users["a1"].exists /\ users["a1"].total_calories = 0
    /\ SumCalories(sessions) > 0

\* C13: a step that changes the ledger either appends one receipt and leaves
\* every receipt already written as it was, or is the TRUNCATE of the
\* administrative reset.
C13_ReceiptsImmutable ==
    [][ sessions' # sessions
        => \/ ResetSessionsStep
           \/ /\ Len(sessions') = Len(sessions) + 1
              /\ SubSeq(sessions', 1, Len(sessions)) = sessions
      ]_vars

\* two requests of the run have each written a receipt after the receipts of
\* the earlier runs, and all of them are in the ledger
C13_Witness ==
    /\ Len(sessions) = PriorRuns + 2
    /\ \A r \in ReqIds : req[r].wroteReceipt
    /\ SubSeq(sessions, 1, PriorRuns) = PriorLedger(PriorRuns)

\* durationMs is missing, not a finite number, zero or negative
BadDuration(b) ==
    IF ~Has(b, "durationMs") THEN TRUE
    ELSE IF "durationMs" \in Field(b, "nan", {}) THEN TRUE
    ELSE b.durationMs <= 0

\* C14: an /activity/submit whose durationMs is missing, not finite, zero or
\* negative is answered 400 in the step that receives it, before the
\* calculator runs, with the ledger and every users row unchanged; it never
\* writes a receipt or a rollup afterwards.
C14_BadDurationRejected ==
    /\ [][ \A r \in ReqIds :
             (req[r].pc = "idle" /\ req'[r].kind = "submit" /\ BadDuration(req'[r].body))
             => /\ req'[r].pc = "done" /\ req'[r].status = 400
                /\ req'[r].reason = "none" /\ req'[r].earned = 0
                /\ users' = users /\ sessions' = sessions
         ]_vars
    /\ [](\A r \in ReqIds :
             (req[r].kind = "submit" /\ BadDuration(req[r].body))
             => /\ req[r].pc = "done" /\ req[r].status = 400
                /\ ~req[r].wroteReceipt /\ ~req[r].wroteRollup)

\* a submission with a negative duration and one whose duration is not a
\* number have both been answered 400 while the ledger holds receipts
C14_Witness ==
    /\ \E r \in ReqIds :
          /\ req[r].kind = "submit" /\ req[r].status = 400
          /\ Has(req[r].body, "durationMs") /\ req[r].body.durationMs < 0
    /\ \E r \in ReqIds :
          /\ req[r].kind = "submit" /\ req[r].status = 400
          /\ ~DurationIsFinite(req[r].body)
    /\ sessions # <<>>

\* the well-formed submissions that have been answered
AnsweredSubmits ==
    {r \in ReqIds : req[r].kind = "submit" /\ req[r].pc = "done"
                    /\ ~BadDuration(req[r].body)}

\* C15: a well-formed /activity/submit is answered 200 unless a statement of
\* the store failed (then 500); the 200 answer is marked ok and carries the
\* credited (post-cap) amount and the calculator's reason, whether the
\* submission was rejected as too_short or score_too_high or cut by the
\* daily cap; a submission cut by the cap keeps the calculator's reason ok.
C15_RejectionsAnsweredAsSuccess ==
    \A r \in AnsweredSubmits :
        LET q == req[r]
        IN  /\ q.status \in {200, 500}
            /\ q.status = 500 <=> q.failedAt # "none"
            /\ q.status = 200
               => /\ q.answer.ok
                  /\ q.answer.earnedCalories = q.capped
                  /\ q.answer.reason = q.reason
                  /\ q.reason \in {"ok", "too_short", "score_too_high"}
                  /\ q.reason # "ok" => q.answer.earnedCalories = 0
                  /\ q.capped < q.earned => q.answer.reason = "ok"

\* a submission the calculator granted 180 was answered 200 with nothing
\* credited because the day's cap was used up, and another was answered 200
\* with a fairness reason
C15_Witness ==
    \E r \in AnsweredSubmits, q \in AnsweredSubmits :
        /\ req[r].status = 200 /\ req[r].earned > 0
        /\ req[r].answer.earnedCalories < req[r].earned
        /\ req[q].status = 200
        /\ req[q].answer.reason \in {"too_short", "score_too_high"}

\* the step in which the receipt logging of the legacy request r fails
LegacyLogFails(r) ==
    /\ req[r].kind = "add" /\ req[r].pc \in {"log_upsert", "log_insert"}
    /\ req'[r].failedAt # "none"

\* C16: when logSession fails inside /activity/add, the request is answered
\* 200 with the totals of the row its addActivity returned, the users table
\* keeps the update already applied, and no receipt is stored for it.
C16_LegacyLoggingFailureSwallowed ==
    /\ [][ \A r \in ReqIds :
             /\ LegacyLogFails(r)
                => /\ req'[r].pc = "done" /\ req'[r].status = 200
                   /\ req[r].wroteRollup /\ ~req'[r].wroteReceipt
                   /\ req'[r].answer = AddResponse(req[r])
                   /\ users' = users /\ sessions' = sessions
             /\ (ApplyStep(r) /\ req[r].kind = "add")
                => req'[r].me = users'[req[r].address]
         ]_vars
    /\ [](\A r \in ReqIds :
             (req[r].kind = "add" /\ req[r].failedAt \in {"log_upsert", "log_insert"})
             => req[r].status = 200 /\ ~req[r].wroteReceipt)

\* the receipt-shaped legacy request of a1 lost its receipt to a failed
\* INSERT, was answered 200, and the total it reported is in the users row
C16_Witness ==
    \E r \in ReqIds :
        /\ req[r].kind = "add" /\ req[r].failedAt = "log_insert"
        /\ req[r].status = 200
        /\ req[r].answer.totalCalories >= 1300
        /\ users[req[r].address].total_calories = req[r].answer.totalCalories
        /\ ViaAdd(sessions) = <<>>

\* the step in which request r's query of /leaderboard/v2 is answered
V2Step(r) ==
    req[r].kind = "v2" /\ req[r].pc = "board_query" /\ req'[r].status = 200

\* C17: the answer to a /leaderboard/v2 query with window lifetime and metric
\* calories lists each address once, with the total_calories its users row
\* holds when the query runs, in descending order of that value.
C17_LifetimeCaloriesMatchesRollup ==
    [][ \A r \in ReqIds :
          (V2Step(r) /\ QueryWindow(req[r].body) = "lifetime"
                     /\ QueryMetric(req[r].body) = "calories")
          => LET rows == req'[r].rows
             IN  /\ \A i \in DOMAIN rows :
                       /\ users[rows[i].address].exists
                       /\ rows[i].value = users[rows[i].address].total_calories
                 /\ \A i \in DOMAIN rows, j \in DOMAIN rows :
                       i < j => /\ rows[i].value >= rows[j].value
                                /\ rows[i].address # rows[j].address
      ]_vars

\* a lifetime calories board listing two users with different totals
C17_Witness ==
    \E r \in ReqIds :
        /\ req[r].kind = "v2" /\ req[r].status = 200
        /\ QueryWindow(req[r].body) = "lifetime"
        /\ QueryMetric(req[r].body) = "calories"
        /\ Len(req[r].rows) = 2
        /\ req[r].rows[1].value > req[r].rows[2].value
        /\ req[r].rows[2].value > 0

\* C18: when a /leaderboard/v2 query names a game, every value it returns
\* aggregates the receipts of that game only (those of the listed address
\* within the window), for every window and metric, lifetime calories and
\* miles included.
C18_GameFilterRestrictsEveryQuery ==
    [][ \A r \in ReqIds :
          (V2Step(r) /\ QueryGame(req[r].body) # "")
          => LET b == req[r].body
                 rows == req'[r].rows
             IN  \A i \in DOMAIN rows :
                    rows[i].value
                      = MetricValue(OfAddress(Matching(sessions, QueryWindow(b),
                                                       QueryGame(b), day),
                                              rows[i].address),
                                    QueryMetric(b), QueryGame(b))
      ]_vars

\* C19: two /leaderboard/v2 queries with the same window, metric, game and
\* limit, with no write to the store (and no midnight) between them, are
\* answered with the same rows in the same order.
C19_RepeatedQuerySameAnswer ==
    \A r \in ReqIds, q \in ReqIds :
        (/\ req[r].kind = "v2" /\ req[r].status = 200
         /\ req[q].kind = "v2" /\ req[q].status = 200
         /\ req[r].body = req[q].body)
        => req[r].rows = req[q].rows

\* a step of a leaderboard request
BoardStep(r) == req[r].pc = "board_query" /\ req'[r] # req[r]

\* C20: no step of /leaderboard, /leaderboard/v2 or /leaderboard/games
\* changes the session ledger or any users row.
C20_LeaderboardsReadOnly ==
    [][ (\E r \in ReqIds : BoardStep(r)) => users' = users /\ sessions' = sessions ]_vars

\* /leaderboard/games has answered with the boards of all five games, and a
\* /leaderboard/v2 query has been answered with rows, over a store with
\* receipts
C20_Witness ==
    /\ \E r \in ReqIds :
          /\ req[r].kind = "games" /\ req[r].status = 200
          /\ Len(req[r].rows) = Len(GamesOrder)
          /\ \E i \in DOMAIN req[r].rows : req[r].rows[i] # <<>>
    /\ \E r \in ReqIds :
          req[r].kind = "v2" /\ req[r].status = 200 /\ req[r].rows # <<>>
    /\ sessions # <<>>

(***************************************************************************)
(* The calendar of the claims, stated apart from the queries: day 1 opens  *)
(* a week and day 2 opens a month.                                         *)
(***************************************************************************)
WeekOf(d) == (d + 6) \div 7
MonthOf(d) == (d + 28) \div 30

\* the receipt x lies inside the window that is current at day now
InWindow(x, window, now) ==
    CASE window = "day" -> x.created_at = now
      [] window = "week" -> WeekOf(x.created_at) = WeekOf(now)
      [] window = "month" -> MonthOf(x.created_at) = MonthOf(now)
      [] OTHER -> TRUE

\* the places in the ledger of the receipts of address a that lie inside the
\* window and match the game filter of query b, asked at day now
Counted(b, a, now) ==
    { i \in DOMAIN sessions :
        /\ sessions[i].address = a
        /\ InWindow(sessions[i], QueryWindow(b), now)
        /\ (Has(b, "game") => sessions[i].game = asGameKey(b.game)) }

RECURSIVE SumAt(_, _)
SumAt(I, f) ==
    IF I = {} THEN 0
    ELSE LET i == CHOOSE j \in I : TRUE
         IN  sessions[i][f] + SumAt(I \ {i}, f)

MaxAt(I, f) == IF I = {} THEN 0 ELSE CHOOSE v \in {sessions[i][f] : i \in I} :
                                        \A i \in I : sessions[i][f] <= v

\* the ledger column a summed metric reads
SumColumn(metric) ==
    CASE metric = "miles" -> "miles"
      [] metric = "duration" -> "duration_ms"
      [] OTHER -> "calories"

\* C21: a /leaderboard/v2 answer for metric calories, miles or duration over
\* the day, week or month window gives each listed address the sum of that
\* column over the address's receipts inside the window that match the game
\* filter, and lists no address that has no such receipt.
C21_WindowedSums ==
    [][\A r \in ReqIds :
          ( /\ V2Step(r)
            /\ QueryMetric(req[r].body) \in {"calories", "miles", "duration"}
            /\ QueryWindow(req[r].body) \in {"day", "week", "month"} )
          => \A i \in DOMAIN req'[r].rows :
                LET row == req'[r].rows[i]
                    I == Counted(req[r].body, row.address, day)
                IN  /\ I # {}
                    /\ row.value = SumAt(I, SumColumn(QueryMetric(req[r].body)))]_vars

\* a week query with a game filter was answered by a row that adds up two
\* receipts while its address holds a receipt the query does not count
C21_Witness ==
    \E r \in ReqIds :
       /\ req[r].kind = "v2" /\ req[r].status = 200
       /\ QueryWindow(req[r].body) = "week" /\ Has(req[r].body, "game")
       /\ QueryMetric(req[r].body) \in {"calories", "miles", "duration"}
       /\ \E i \in DOMAIN req[r].rows :
             LET row == req[r].rows[i]
                 mine == { j \in DOMAIN sessions :
                             /\ sessions[j].address = row.address
                             /\ sessions[j].game = asGameKey(req[r].body.game) }
             IN  /\ row.value > 0
                 /\ \E j \in mine, k \in mine :
                       /\ j # k
                       /\ row.value = sessions[j][SumColumn(QueryMetric(req[r].body))]
                                       + sessions[k][SumColumn(QueryMetric(req[r].body))]
                 /\ \E j \in DOMAIN sessions :
                       sessions[j].address = row.address /\ j \notin mine

\* C22: a /leaderboard/v2 answer for metric score or streak gives each listed
\* address the greatest value of that column over the address's receipts
\* inside the window that match the game filter, with or without a filter.
C22_BestRunIsMaximum ==
    [][\A r \in ReqIds :
          (V2Step(r) /\ QueryMetric(req[r].body) \in {"score", "streak"})
          => \A i \in DOMAIN req'[r].rows :
                LET row == req'[r].rows[i]
                IN  row.value = MaxAt(Counted(req[r].body, row.address, day),
                                      QueryMetric(req[r].body))]_vars

\* C23: the rows of every /leaderboard/v2 answer and of every board of
\* /leaderboard/games come in descending order of value: no row is followed
\* by a row with a larger value.
C23_DescendingByValue ==
    [][\A r \in ReqIds :
          (req[r].pc = "board_query" /\ req[r].kind \in {"v2", "games"})
          => LET Sorted(rows) == \A i \in DOMAIN rows, j \in DOMAIN rows :
                                    i < j => rows[i].value >= rows[j].value
             IN  IF req[r].kind = "v2"
                 THEN Sorted(req'[r].rows)
                 ELSE \A k \in DOMAIN req'[r].rows : Sorted(req'[r].rows[k])]_vars

\* an answer computed from the ledger lists two rows of different values
C23_Witness ==
    \E r \in ReqIds :
       /\ req[r].kind = "v2" /\ req[r].status = 200
       /\ QueryWindow(req[r].body) # "lifetime"
       /\ Len(req[r].rows) = 2
       /\ req[r].rows[1].value > req[r].rows[2].value

\* C24: the LIMIT of every /leaderboard/v2 query lies in 1..200 and the answer
\* has no more rows than that; it is max(1, limit) for a requested limit
\* below 200, 200 for a larger one, and 30 for a limit that is missing, zero
\* or not a number.
C24_LimitClamped ==
    [][\A r \in ReqIds :
          V2Step(r)
          => LET b == req[r].body
                 asked == IF Has(b, "limit") THEN b.limit ELSE 0
                 given == req'[r].limit
             IN  /\ given \in 1..200
                 /\ Len(req'[r].rows) <= given
                 /\ IF ~Has(b, "limit") \/ asked = 0
                    THEN given = 30
                    ELSE IF asked < 200 THEN given = Max(1, asked) ELSE given = 200]_vars

\* a limit of 500 was cut to 200, a limit of -3 raised to 1, a limit that is
\* not a number replaced by 30, and a limit of 1 cut an answer to one row
\* while two addresses qualified
C24_Witness ==
    /\ \E r \in ReqIds :
          /\ req[r].kind = "v2" /\ req[r].status = 200
          /\ \/ Field(req[r].body, "limit", 0) = 500 /\ req[r].limit = 200
             \/ Field(req[r].body, "limit", 0) = -3 /\ req[r].limit = 1
             \/ "limit" \in Field(req[r].body, "nan", {}) /\ req[r].limit = 30
    /\ \E r \in ReqIds :
          /\ req[r].kind = "v2" /\ req[r].status = 200
          /\ Field(req[r].body, "limit", 0) = 1 /\ Len(req[r].rows) = 1
          /\ Cardinality({a \in Addr : users[a].exists}) = 2

UpsertStep(r) ==
    /\ req[r].pc \in {"name_upsert", "tg_upsert", "tgid_upsert", "add_upsert",
                      "log_upsert", "verify_upsert"}
    /\ req'[r] # req[r]
    /\ req'[r].failedAt = req[r].failedAt

\* C26: the users table is keyed by the address, so it holds one row per
\* address at most; a call of upsertUser, whatever other calls are in flight,
\* leaves the address with a row, changes nothing of a row that was there
\* (lifetime totals, best duration, display name) and touches no other row;
\* and no step ever removes a row.
C26_UpsertIsIdempotent ==
    [][ /\ \A a \in Addr : users[a].exists => users'[a].exists
        /\ \A r \in ReqIds :
              UpsertStep(r)
              => /\ users'[req[r].address].exists
                 /\ users[req[r].address].exists
                    => users'[req[r].address] = users[req[r].address]
                 /\ \A o \in Addr \ {req[r].address} : users'[o] = users[o] ]_vars

\* two requests of one address have both called upsertUser on a row that
\* holds lifetime totals and a display name, and the row still holds them
C26_Witness ==
    /\ req[1].address = "a1" /\ req[2].address = "a1"
    /\ req[1].pc \in {"name_update", "add_update"}
    /\ req[2].pc \in {"name_update", "add_update"}
    /\ users["a1"].total_calories > 0
    /\ users["a1"].display_name = <<"A", "l">>

\* C27: no two rows of the users table hold the same display name, NULL
\* apart.
C27_DisplayNamesUnique ==
    \A a \in Addr, o \in Addr :
        ( /\ a # o /\ users[a].exists /\ users[o].exists
          /\ users[a].display_name # <<>> )
        => users[a].display_name # users[o].display_name

\* C28: a challenge is consumed at most once: no two /auth/verify requests
\* that present the same nonce and signature for an address both succeed on
\* one issued challenge.
C28_ChallengeConsumedOnce ==
    \A r \in ReqIds, o \in ReqIds :
        ( /\ r # o
          /\ req[r].kind = "verify" /\ req[r].status = 200
          /\ req[o].kind = "verify" /\ req[o].status = 200
          /\ req[r].body = req[o].body )
        => req[r].challenge # req[o].challenge

\* C29: a challenge issued by one server process can be verified by any
\* other: an /auth/verify that presents the nonce and a good signature of a
\* challenge some process holds unexpired passes the checks of the process
\* that serves it.
C29_ChallengeKnownToEveryInstance ==
    [][\A r \in ReqIds :
          ( /\ req[r].pc = "idle" /\ req'[r].kind = "verify"
            /\ Has(req'[r].body, "nonce") /\ Has(req'[r].body, "signature")
            /\ \E i \in Instances :
                  LET ch == challenges[i][req'[r].address]
                  IN  /\ ch.held /\ day <= ch.exp
                      /\ req'[r].body.nonce = ch.nonce
                      /\ SignatureOk(req'[r].address, req'[r].body.signature, ch) )
          => req'[r].pc = "verify_upsert"]_vars

\* the runner rules of the revision before the caps were made common
RunnerRulesBefore ==
    [minDurationMs |-> 12000, maxRunCalories |-> 260, dailyCapCalories |-> 1600,
     cpmCap |-> 220, maxScorePerRun |-> 0]

\* e calories are no more than the base amount of the submission: score x 2.2
\* for snack, x 1.8 for basket, x 2.0 for lift, 110 a mile for runner (miles
\* in tenths), or 120 a minute for a runner submission without distance
WithinBase(e, game, score, miles, durationMs) ==
    CASE game = "snack"  -> e * 10 <= score * 22
      [] game = "basket" -> e * 10 <= score * 18
      [] game = "lift"   -> e <= score * 2
      [] game = "runner" -> IF miles > 0 THEN e <= miles * 11
                            ELSE e * MsPerMinute <= durationMs * 120

\* e = floor(min(base, durationMinutes x cpmCap, maxRunCalories))
IsFloorOfMin(e, rules, game, score, miles, durationMs) ==
    LET Fits(x) == /\ WithinBase(x, game, score, miles, durationMs)
                   /\ x * MsPerMinute <= durationMs * rules.cpmCap
                   /\ x <= rules.maxRunCalories
    IN  e \in Nat /\ Fits(e) /\ ~Fits(e + 1)

\* C30: for a submission of snack, basket, lift or runner that lasts the
\* minimum duration and, runner apart, keeps its score rate within the
\* ceiling, computeEarnedCalories returns reason ok and the amount
\* floor(min(base, durationMinutes x cpmCap, maxRunCalories)), negative inputs
\* counted as 0; and with a per-run cap of 260 and 220 a minute a runner
\* submission of 60000 ms and 2.0 miles earns 220.
C30_FloorOfMinOfBaseAndCaps ==
    /\ \A r \in Computed :
          LET b == req[r].body
              game == SubmitGame(b)
          IN  ( /\ game \in RuleGames
                /\ SubmitDurationMs(b) >= RULES[game].minDurationMs
                /\ game = "runner" \/ ~RateExceeds(b) )
              => /\ req[r].reason = "ok"
                 /\ IsFloorOfMin(req[r].earned, RULES[game], game,
                                 Max(0, SubmitScore(b)), Max(0, SubmitMiles(b)),
                                 SubmitDurationMs(b))
    /\ earnedCalories(RunnerRulesBefore, "runner", 0, 20, 60000) = 220
    /\ IsFloorOfMin(220, RunnerRulesBefore, "runner", 0, 20, 60000)

\* the calculator was given the runner submission of 60000 ms and 2.0
\* miles: base and time cap are 220 and it earns the per-run cap of the
\* present rules
C30_Witness ==
    \E r \in Computed :
        LET b == req[r].body
        IN  /\ req[r].kind = "calc" /\ req[r].reason = "ok"
            /\ SubmitGame(b) = "runner" /\ SubmitMiles(b) = 20
            /\ SubmitDurationMs(b) = 60000
            /\ req[r].earned = RULES["runner"].maxRunCalories
            /\ req[r].earned < 220

\* C31: the ledger grows by one receipt exactly when a request passes the
\* INSERT of its logSession, which a request does once at most; the receipt
\* of an /activity/submit carries its address, game and credited amount; an
\* /activity/submit answered 200 has written its receipt, also when it is
\* credited 0, and one answered 400 has written none.
C31_OneReceiptPerSubmission ==
    /\ [](\A r \in ReqIds :
            req[r].kind = "submit"
            => /\ req[r].status = 200 => req[r].wroteReceipt
               /\ req[r].status = 400 => ~req[r].wroteReceipt)
    /\ [][ LET writers == {r \in ReqIds : ~req[r].wroteReceipt /\ req'[r].wroteReceipt}
           IN  /\ Len(sessions') = Len(sessions) + Cardinality(writers)
               /\ SubSeq(sessions', 1, Len(sessions)) = sessions
               /\ \A r \in ReqIds : req[r].wroteReceipt => req'[r].wroteReceipt
               /\ \A r \in writers :
                     req[r].kind = "submit"
                     => LET row == sessions'[Len(sessions')]
                        IN  /\ row.address = req[r].address
                            /\ row.game = SubmitGame(req[r].body)
                            /\ row.calories = req[r].capped ]_vars

\* a submission rejected as too short was answered 200 and left a receipt
\* of 0 calories, and a submission without duration was answered 400
C31_Witness ==
    /\ \E r \in ReqIds :
          /\ req[r].kind = "submit" /\ req[r].status = 200
          /\ req[r].reason = "too_short" /\ req[r].capped = 0
          /\ \E i \in DOMAIN sessions :
                /\ sessions[i].address = req[r].address
                /\ sessions[i].calories = 0
                /\ sessions[i].duration_ms = SubmitDurationMs(req[r].body)
    /\ \E r \in ReqIds : req[r].kind = "submit" /\ req[r].status = 400

\* the payload has a non-empty game name, a positive score or a positive
\* durationMs
NamesARun(b) ==
    \/ Has(b, "game") /\ b.game # ""
    \/ Has(b, "score") /\ b.score > 0
    \/ Has(b, "durationMs") /\ b.durationMs > 0

\* the calories and miles of an /activity/add payload, under their new or
\* their legacy name, and its bestSeconds; a negative value counts as 0
Given(b, new, legacy) ==
    Max(0, IF Has(b, new) THEN b[new] ELSE IF Has(b, legacy) THEN b[legacy] ELSE 0)

\* C32: the addActivity of an /activity/add adds the payload's calories and
\* miles to the lifetime totals and raises the best duration to its
\* bestSeconds, and leaves the ledger alone; a request answered 200 has done
\* so, and, unless its logSession failed, has written a receipt if and only
\* if the payload has a non-empty game name, a positive score or a positive
\* durationMs; a request whose payload has none of them never changes the
\* ledger.
C32_AddAlwaysRollsUpAndLogsRuns ==
    /\ [](\A r \in ReqIds :
            req[r].kind = "add"
            => /\ req[r].status = 200 => req[r].wroteRollup
               /\ (req[r].status = 200 /\ req[r].failedAt = "none")
                     => (req[r].wroteReceipt <=> NamesARun(req[r].body))
               /\ ~NamesARun(req[r].body) => ~req[r].wroteReceipt)
    /\ [][\A r \in ReqIds :
             ( /\ req[r].kind = "add" /\ req'[r] # req[r] )
             => /\ (~req[r].wroteRollup /\ req'[r].wroteRollup)
                   => LET a == req[r].address
                          b == req[r].body
                      IN  /\ users'[a].total_calories =
                                users[a].total_calories + Given(b, "calories", "addCalories")
                          /\ users'[a].total_miles =
                                users[a].total_miles + Given(b, "miles", "addMiles")
                          /\ users'[a].best_seconds =
                                Max(users[a].best_seconds,
                                    Given(b, "bestSeconds", "bestSeconds"))
                          /\ sessions' = sessions
                /\ ~NamesARun(req[r].body) => sessions' = sessions ]_vars

\* a payload with a score alone left a receipt, and a payload with the
\* legacy fields alone raised the totals of its user and left none
C32_Witness ==
    /\ \E r \in ReqIds :
          /\ req[r].kind = "add" /\ req[r].status = 200
          /\ req[r].body = [score |-> 5] /\ req[r].wroteReceipt
          /\ \E i \in DOMAIN sessions :
                sessions[i].via = "add" /\ sessions[i].score = 5
    /\ \E r \in ReqIds :
          /\ req[r].kind = "add" /\ req[r].status = 200
          /\ req[r].body = [addCalories |-> 7, addMiles |-> 5, bestSeconds |-> 30]
          /\ req[r].wroteRollup /\ ~req[r].wroteReceipt
          /\ users[req[r].address].total_miles >= 5

\* the query reads the users table: window lifetime, metric calories or miles
ReadsRollup(b) ==
    QueryWindow(b) = "lifetime" /\ QueryMetric(b) \in {"calories", "miles"}

\* C33: a /leaderboard/v2 answer with game filter basket that is computed
\* from the ledger gives each row, for every metric, a score field equal to
\* the greatest score of one basket receipt of its address inside the
\* window, and for metric score the ranking value is that maximum too; the
\* basket board of /leaderboard/games ranks by the same maximum.  (A query
\* answered from the users table reports no score at all.)
C33_BasketScoreIsMaximum ==
    [][\A r \in ReqIds :
          /\ ( /\ V2Step(r)
               /\ Has(req[r].body, "game") /\ QueryGame(req[r].body) = "basket" )
             => \A i \in DOMAIN req'[r].rows :
                   LET row == req'[r].rows[i]
                       best == MaxAt(Counted(req[r].body, row.address, day), "score")
                   IN  IF ReadsRollup(req[r].body)
                       THEN "score" \notin DOMAIN row
                       ELSE /\ "score" \in DOMAIN row
                            /\ row.score = best
                            /\ QueryMetric(req[r].body) = "score" => row.value = best
          /\ ( /\ req[r].kind = "games" /\ req[r].pc = "board_query"
               /\ Len(req'[r].rows) = Len(req[r].rows) + 1
               /\ GamesOrder[Len(req'[r].rows)] = "basket" )
             => LET rows == req'[r].rows[Len(req'[r].rows)]
                    b == [window |-> Field(req[r].body, "window", "lifetime"),
                          game |-> "basket"]
                IN  \A i \in DOMAIN rows :
                       LET best == MaxAt(Counted(b, rows[i].address, day), "score")
                       IN  rows[i].value = best /\ rows[i].score = best ]_vars

\* a basket query for a metric that adds up was answered with a row whose
\* score is the better of the two basket scores of its address, 50 of 50 and
\* 30, while its value is a sum over both receipts
C33_Witness ==
    \E r \in ReqIds :
       /\ req[r].kind = "v2" /\ req[r].status = 200
       /\ Has(req[r].body, "game") /\ QueryGame(req[r].body) = "basket"
       /\ QueryMetric(req[r].body) = "duration"
       /\ \E i \in DOMAIN req[r].rows :
             LET row == req[r].rows[i]
                 mine == { j \in DOMAIN sessions :
                             /\ sessions[j].address = row.address
                             /\ sessions[j].game = "basket" }
             IN  /\ row.score = 50
                 /\ \E j \in mine, k \in mine :
                       /\ sessions[j].score = 50 /\ sessions[k].score = 30
                       /\ row.value = sessions[j].duration_ms + sessions[k].duration_ms

\* the places in the ledger of the receipts of the pair (a, g) created on day d
PairAt(a, g, d) ==
    { i \in DOMAIN sessions :
        /\ sessions[i].address = a /\ sessions[i].game = g
        /\ sessions[i].created_at = d }

\* C34: the amount a submission is credited is its provisional amount cut to
\* the game's dailyCapCalories less the calories of the receipts its pair got
\* on the current day; receipts of earlier days do not count, so with no
\* receipt of the current day the whole dailyCapCalories is available; and
\* midnight itself changes nothing in the store or in any request.
C34_CapWindowIsTheCurrentDay ==
    /\ [][\A r \in ReqIds :
             ( /\ req[r].kind = "submit" /\ req[r].pc = "today_before"
               /\ req'[r].pc = "log_upsert" )
             => LET g == SubmitGame(req[r].body)
                    today == PairAt(req[r].address, g, day)
                    spent == SumAt(today, "calories")
                IN  /\ req'[r].capped =
                          Max(0, Min(req[r].earned, Max(0, DailyCap(g) - spent)))
                    /\ today = {} => req'[r].capped = Min(req[r].earned, DailyCap(g)) ]_vars
    /\ [][ day' # day
             => /\ day' = day + 1
                /\ sessions' = sessions /\ users' = users /\ req' = req ]_vars

\* on the day after six full snack runs had left less headroom than one run
\* earns, a seventh run of the same user was credited its whole amount
C34_Witness ==
    \E r \in ReqIds :
       /\ day = 1
       /\ req[r].kind = "submit" /\ req[r].status = 200
       /\ req[r].address = "a1" /\ req[r].body = FullRun
       /\ req[r].earned > 0 /\ req[r].capped = req[r].earned
       /\ DailyCap("snack") - SumAt(PairAt("a1", "snack", 0), "calories") < req[r].earned
       /\ \E i \in PairAt("a1", "snack", 1) : sessions[i].calories = req[r].earned

\* the address and game of a receipt or of a submission
PairOf(x) == <<x.address, x.game>>

\* what a submission with body b of address a is credited over the ledger s
\* on day d, computed from b and from the receipts of d in s that carry the
\* pair of the submission, and from nothing else
OwnCredit(a, b, s, d) ==
    LET g == SubmitGame(b)
        own == SelectSeq(s, LAMBDA x : PairOf(x) = <<a, g>> /\ x.created_at = d)
        calc == computeEarnedCalories(g, SubmitScore(b), SubmitMiles(b),
                                      SubmitDurationMs(b))
    IN  Max(0, Min(calc.earnedCalories,
                   Max(0, DailyCap(g) - SumField(own, "calories"))))

\* C35: a step of a submission leaves the receipts of every other pair as
\* they were, so no other pair's credited total of today changes; and the
\* amount a submission is credited is a function of its own body and of the
\* current-day receipts of its own pair, whatever other requests are in
\* flight and whatever the ledger holds for other users and games.
C35_PairsDoNotInterfere ==
    [][\A r \in ReqIds :
          ( req[r].kind = "submit" /\ req'[r] # req[r] )
          => LET own == <<req[r].address, SubmitGame(req[r].body)>>
             IN  /\ SelectSeq(sessions', LAMBDA x : PairOf(x) # own)
                       = SelectSeq(sessions, LAMBDA x : PairOf(x) # own)
                 /\ ( req[r].pc = "today_before" /\ req'[r].pc = "log_upsert" )
                       => req'[r].capped =
                            OwnCredit(req[r].address, req[r].body, sessions, day) ]_vars

\* with a1's snack headroom of the day smaller than one run earns, a snack
\* run of a2 and a runner run of a1 were both credited in full that day
C35_Witness ==
    /\ day = 0
    /\ DailyCap("snack") - SumAt(PairAt("a1", "snack", 0), "calories") < 180
    /\ \E r \in ReqIds :
          /\ req[r].kind = "submit" /\ req[r].status = 200
          /\ req[r].address = "a2" /\ SubmitGame(req[r].body) = "snack"
          /\ req[r].capped = 180
          /\ \E i \in PairAt("a2", "snack", 0) : sessions[i].calories = 180
    /\ \E r \in ReqIds :
          /\ req[r].kind = "submit" /\ req[r].status = 200
          /\ req[r].address = "a1" /\ SubmitGame(req[r].body) = "runner"
          /\ req[r].capped = 180
          /\ \E i \in PairAt("a1", "runner", 0) : sessions[i].calories = 180

\* the body names no game, or a name that is none of the five game keys
NamesNoGame(b) ==
    \/ ~Has(b, "game")
    \/ b.game \notin {"runner", "snack", "lift", "basket", "greed", "Runner ", "GREED"}

\* C36: a submission that names no game, or a name that is no game key, is
\* not answered 400 for it; it gets the provisional amount and the reason the
\* calculator gives a snack run of its score and duration, is credited that
\* amount cut to snack's daily cap less what the day's snack receipts of its
\* user hold, whoever wrote them, and its receipt carries the game snack.
C36_UnknownGameIsSnack ==
    /\ [](\A r \in ReqIds :
            ( req[r].kind = "submit" /\ NamesNoGame(req[r].body) )
            => LET b == req[r].body
                   calc == computeEarnedCalories("snack", SubmitScore(b), SubmitMiles(b),
                                                 SubmitDurationMs(b))
               IN  /\ req[r].status = 400 => MissingDuration(b)
                   /\ req[r].status # 400
                         => req[r].earned = calc.earnedCalories /\ req[r].reason = calc.reason)
    /\ [][\A r \in ReqIds :
             ( req[r].kind = "submit" /\ NamesNoGame(req[r].body) )
             => /\ ( req[r].pc = "today_before" /\ req'[r].pc = "log_upsert" )
                   => req'[r].capped =
                        Max(0, Min(req[r].earned,
                               Max(0, RULES["snack"].dailyCapCalories
                                        - SumAt(PairAt(req[r].address, "snack", day),
                                                "calories"))))
                /\ ( ~req[r].wroteReceipt /\ req'[r].wroteReceipt )
                   => LET row == sessions'[Len(sessions')]
                      IN  /\ Len(sessions') = Len(sessions) + 1
                          /\ row.address = req[r].address
                          /\ row.game = "snack"
                          /\ row.calories = req[r].capped ]_vars

\* after a genuine snack run, a run of 500 points a minute under an unknown
\* name (within snack's score rate, beyond lift's and basket's) was credited
\* from the headroom the snack run had left and recorded under snack
C36_Witness ==
    /\ day = 0
    /\ \E r \in ReqIds :
          /\ req[r].kind = "submit" /\ req[r].status = 200
          /\ req[r].body = FullRun /\ req[r].capped > 0
    /\ \E r \in ReqIds :
          /\ req[r].kind = "submit" /\ req[r].status = 200
          /\ req[r].body = [game |-> "hoops", score |-> 500, durationMs |-> 60000]
          /\ req[r].reason = "ok"
          /\ req[r].earned = 180 /\ req[r].capped = 180
          /\ sessions[Len(sessions)].game = "snack"
          /\ sessions[Len(sessions)].score = 500
          /\ SumAt(PairAt(req[r].address, "snack", 0), "calories") = 360

\* the smallest value the rules of any game give the limit f
Tightest(f) ==
    CHOOSE v \in {RULES[g][f] : g \in DOMAIN RULES} \cup {COMMON_RULES[f]} :
        /\ \A g \in DOMAIN RULES : v <= RULES[g][f]
        /\ v <= COMMON_RULES[f]

\* the submissions for a game key without an entry in RULES
Unruled == { r \in ReqIds : /\ req[r].kind = "submit"
                            /\ SubmitGame(req[r].body) \notin DOMAIN RULES }

\* C37: a submission for a game key without an entry in RULES gets a
\* provisional and a credited amount within the smallest maxRunCalories of
\* the table, the receipts of such a game of one user and day add up to no
\* more than the smallest dailyCapCalories, and the request is answered
\* with reason ok: it ends with status 500 only when a statement of the
\* store failed.
C37_UnruledGameFailsClosed ==
    /\ \A r \in Unruled :
          /\ req[r].earned <= Tightest("maxRunCalories")
          /\ req[r].capped <= Tightest("maxRunCalories")
          /\ req[r].status = 200 => req[r].reason = "ok" /\ req[r].wroteReceipt
          /\ req[r].status = 500 => req[r].failedAt # "none"
    /\ \A a \in Addr, g \in GameKeys \ DOMAIN RULES, d \in Days :
          /\ SumAt(PairAt(a, g, d), "calories") <= Tightest("dailyCapCalories")
          /\ \A i \in PairAt(a, g, d) :
                sessions[i].calories <= Tightest("maxRunCalories")

\* a greed run of 1500 points was answered 200 with nothing earned, and its
\* receipt under greed holds the score and no calories
C37_Witness ==
    \E r \in Unruled :
       /\ req[r].status = 200 /\ req[r].reason = "ok"
       /\ SubmitScore(req[r].body) = 1500
       /\ req[r].earned = 0 /\ req[r].capped = 0
       /\ \E i \in PairAt(req[r].address, "greed", day) :
             sessions[i].score = 1500 /\ sessions[i].calories = 0

\* C38: no step of a submission that the calculator rejected with too_short
\* or score_too_high changes total_calories, total_miles or best_seconds of
\* its user.
C38_RejectedSubmissionChangesNoTotals ==
    [][\A r \in ReqIds :
          ( /\ req[r].kind = "submit"
            /\ req[r].reason \in {"too_short", "score_too_high"}
            /\ req'[r] # req[r] )
          => LET a == req[r].address
             IN  /\ users'[a].total_calories = users[a].total_calories
                 /\ users'[a].total_miles = users[a].total_miles
                 /\ users'[a].best_seconds = users[a].best_seconds ]_vars

\* every request so far was a submission or a reset, and each of them has
\* been answered without a failure
OnlySubmitsAllDone ==
    \A r \in ReqIds :
       /\ req[r].kind \in {"none", "submit", "reset"}
       /\ req[r].pc \in {"idle", "done"}
       /\ req[r].failedAt = "none"
       /\ req[r].status # 500

\* C39: once every request, all of them submissions or resets, has been
\* answered without a failure, total_calories of each user is the sum of the
\* calories of the user's receipts in the ledger (the reset empties the
\* ledger, so these are the receipts written since the last reset).
C39_TotalIsSumOfReceipts ==
    OnlySubmitsAllDone
    => \A a \in Addr :
          users[a].total_calories
             = SumAt({i \in DOMAIN sessions : sessions[i].address = a}, "calories")

\* C40: no step of a Telegram sign-in (POST /auth/telegram or the bot's
\* callback_query handler) changes the display name of a user who has one.
C40_TelegramKeepsDisplayName ==
    [][\A r \in ReqIds :
          ( req[r].kind \in {"tg_auth", "tg_game"} /\ req'[r] # req[r] )
          => LET a == req[r].address
             IN  users[a].display_name # <<>>
                 => users'[a].display_name = users[a].display_name ]_vars

====
